---- MODULE Spec2Model ----
(***************************************************************************)
(* Bastion (src-tauri): the session manager, the command layer that guards *)
(* the block lists with the hardcore lock, the heartbeat loop and the      *)
(* hosts-file synchronizer, as state machines over the program's state.    *)
(*                                                                         *)
(* Option<T> is a sequence of length 0 (None) or 1 (Some).  Wall-clock     *)
(* time is in seconds since the epoch, the local zone taken as UTC.  The   *)
(* hosts file is a sequence of tokens, each a fixed byte string (a marker, *)
(* a newline, a redirect line, a foreign line), so that a byte offset is a *)
(* token boundary.                                                         *)
(***************************************************************************)
EXTENDS Integers, Sequences, FiniteSets, TLC

VARIABLES
    now,                 \* Local::now().timestamp()
    active_session,      \* SessionManager.active_session : Option<ActiveSession>
    is_hardcore_locked,  \* SessionManager.is_hardcore_locked : AtomicBool
    pomodoro_state,      \* SessionManager.pomodoro_state : PomodoroState
    blocked_sites,       \* table blocked_sites, in rowid order
    blocked_apps,        \* table blocked_apps, in rowid order
    sessions,            \* table sessions (the scheduled rules), in rowid order
    next_id,             \* AUTOINCREMENT counters of the three tables
    master_password_hash,\* settings["master_password_hash"] : Option<String>
    hosts,               \* content of the hosts file
    hb_pc,               \* heartbeat task: position in the loop body
    enforcement_counter, \* heartbeat task: local enforcement_counter
    hb_local,            \* heartbeat task: locals of a start_session in flight
    tick_no,             \* number of heartbeat ticks so far
    procs,               \* the OS process table: names of the live processes
    block_events,        \* table block_events, in insertion order
    result,              \* the last command and what it returned to the UI
    hs_initial,          \* hosts-file algebra: content before the first sync
    hs_log,              \* hosts-file algebra: the syncs run, with their contents
    pomodoro_log,        \* what pomodoro_tick returned since the last pomodoro_configure
    data,                \* block server: the bytes read from a connection
    parsed,              \* block server: what the parser made of data
    conn,                \* block server: the TCP connection being handled
    udp,                 \* block server: the UDP/443 socket and its datagrams
    custom_warning_text, \* settings["custom_warning_text"] : Option<String>
    listeners,           \* block server: the six listener tasks and their binds
    lock_tasks           \* the mutexes each task holds and what it has left to run

vars == <<now, active_session, is_hardcore_locked, pomodoro_state, blocked_sites,
          blocked_apps, sessions, next_id, master_password_hash, hosts, hb_pc,
          enforcement_counter, hb_local, tick_no, procs, block_events, result,
          hs_initial, hs_log, pomodoro_log, data, parsed, conn, udp,
          custom_warning_text, listeners, lock_tasks>>

-----------------------------------------------------------------------------
(* Bounds of the model *)

MaxTime == 90
ClockStep == 30
MaxRows == 1
MaxTicks == 6
MaxHostsLen == 22
MaxSyncs == 3
MaxFileLen == 3
MaxApps == 2
MaxEvents == 2
MaxRules == 2
MaxTail == 15
MaxLines == 2
MaxDatagrams == 3

(* Program constants *)
MinClientHelloLen == 43

\* The block server has read nothing yet.
NotParsed == [done |-> FALSE, panicked |-> FALSE, value |-> << >>]

\* A connection accepted and not handled yet.
NoConn ==
    [closed |-> FALSE, port |-> 0, read |-> "none", db_ok |-> FALSE, response |-> << >>]

\* server.rs lines 16-56: the endpoints start_block_server spawns a task for.
Endpoints ==
    {[proto |-> p[1], port |-> p[2], addr |-> a] :
        p \in {<<"tcp", 80>>, <<"tcp", 443>>, <<"udp", 443>>}, a \in {"127.0.0.1", "::1"}}

\* Every listener task spawned, none of them at its bind yet.
Spawned == [e \in Endpoints |-> [state |-> "spawned", logged |-> FALSE]]

\* The tasks that share AppState: the heartbeat, a UI command, a listener.
Tasks == {"heartbeat", "ui", "listener"}

\* Every task between two runs, holding no mutex.
NoTasks == [t \in Tasks |-> [ops |-> << >>, held |-> {}]]

\* The UDP socket bound, no datagram received yet.
UdpBound == [receiving |-> TRUE, datagrams |-> << >>]

SecondsPerMinute == 60
ScheduledDuration == 60
EnforcementPeriod == 3
SecondsPerDay == 24 * 60 * 60

None == << >>
Some(x) == <<x>>
IsSome(o) == o # << >>

Max(a, b) == IF a >= b THEN a ELSE b

-----------------------------------------------------------------------------
(* session.rs: SessionManager *)

\* PomodoroState::default()
DefaultPomodoro ==
    [phase |-> "Work", work_duration |-> 25 * 60, break_duration |-> 5 * 60,
     long_break_duration |-> 15 * 60, sessions_until_long_break |-> 4,
     completed_sessions |-> 0, time_remaining |-> 25 * 60, is_running |-> FALSE,
     poisoned |-> FALSE]

\* A variant of the record with the session typed after its caller's rule.
NewSessionScheduled(n, name, duration_minutes, hardcore) ==
    [id |-> n, name |-> name, start_time |-> n,
     end_time |-> n + duration_minutes * SecondsPerMinute,
     hardcore |-> hardcore,
     session_type |-> IF name = "focus" THEN "Manual" ELSE "Scheduled"]

\* The ActiveSession start_session builds at time n.
NewSession(n, name, duration_minutes, hardcore) ==
    [id |-> n, name |-> name, start_time |-> n,
     end_time |-> n + duration_minutes * SecondsPerMinute,
     hardcore |-> hardcore, session_type |-> "Manual"]

\* start_session: the flag it stores (only ever set, never cleared, here).
StartSessionLock(locked, hardcore) == IF hardcore THEN TRUE ELSE locked

\* start_session: the session it leaves in active_session.
StartSessionActive(active, n, name, duration_minutes, hardcore) ==
    Some(NewSession(n, name, duration_minutes, hardcore))

\* A variant of the check that also refuses at end_time itself.
EndSessionRefusedInclusive(active, n) ==
    /\ IsSome(active)
    /\ active[1].hardcore
    /\ n <= active[1].end_time

\* end_session: the early return with Err.
EndSessionRefused(active, n) ==
    /\ IsSome(active)
    /\ active[1].hardcore
    /\ n < active[1].end_time

\* get_time_remaining
get_time_remaining(active, n) ==
    IF IsSome(active) THEN Some(Max(active[1].end_time - n, 0)) ELSE None

\* is_session_expired
is_session_expired(active, n) ==
    LET r == get_time_remaining(active, n)
    IN  IF IsSome(r) THEN r[1] <= 0 ELSE TRUE

\* pomodoro_tick with the long-break test made on the count before this phase.
pomodoro_tick_stale_count(st) ==
    IF ~st.is_running THEN st
    ELSE IF st.time_remaining > 0
    THEN [st EXCEPT !.time_remaining = st.time_remaining - 1]
    ELSE IF st.phase = "Work"
    THEN LET c == st.completed_sessions + 1
         IN  IF st.completed_sessions % st.sessions_until_long_break = 0
             THEN [st EXCEPT !.completed_sessions = c, !.phase = "LongBreak",
                             !.time_remaining = st.long_break_duration]
             ELSE [st EXCEPT !.completed_sessions = c, !.phase = "Break",
                             !.time_remaining = st.break_duration]
    ELSE [st EXCEPT !.phase = "Work", !.time_remaining = st.work_duration]

\* pomodoro_tick: the state it leaves.
pomodoro_tick(st) ==
    IF ~st.is_running THEN st
    ELSE IF st.time_remaining > 0
    THEN [st EXCEPT !.time_remaining = st.time_remaining - 1]
    ELSE IF st.phase = "Work"
    THEN LET c == st.completed_sessions + 1
         IN  IF c % st.sessions_until_long_break = 0
             THEN [st EXCEPT !.completed_sessions = c, !.phase = "LongBreak",
                             !.time_remaining = st.long_break_duration]
             ELSE [st EXCEPT !.completed_sessions = c, !.phase = "Break",
                             !.time_remaining = st.break_duration]
    ELSE [st EXCEPT !.phase = "Work", !.time_remaining = st.work_duration]

\* pomodoro_tick, line 227: completed_sessions % sessions_until_long_break
\* panics when the divisor is 0, with the pomodoro_state lock held.
PomodoroTickPanics(st) ==
    /\ st.is_running
    /\ ~(st.time_remaining > 0)
    /\ st.phase = "Work"
    /\ st.sessions_until_long_break = 0

\* What the panicking tick leaves: the count already incremented (line 225)
\* and the mutex poisoned.
pomodoro_tick_unwound(st) ==
    [st EXCEPT !.completed_sessions = @ + 1, !.poisoned = TRUE]

\* pomodoro_tick: the value it returns, the completed phase if any.
pomodoro_tick_returns(st) ==
    IF ~st.is_running THEN None
    ELSE IF st.time_remaining > 0 THEN None
    ELSE Some(st.phase)

\* The record of the ticks of a running timer since a Work phase was configured.
NoPomodoroLog ==
    [fresh |-> FALSE, work |-> 0, returned |-> << >>, last |-> None, works |-> 0]

LogTick(log, st) ==
    [log EXCEPT !.returned = IF log.fresh /\ st.is_running
                             THEN Append(@, pomodoro_tick_returns(st)) ELSE @,
                !.last = pomodoro_tick_returns(st),
                !.works = IF pomodoro_tick_returns(st) = Some("Work") THEN @ + 1 ELSE @]

LogConfigure(log, st, work) ==
    [fresh |-> st.phase = "Work", work |-> work, returned |-> << >>, last |-> None,
     works |-> log.works]

LogCommand(log, cmd) ==
    IF cmd \in {"pomodoro_pause", "pomodoro_reset"}
    THEN [log EXCEPT !.fresh = FALSE, !.returned = << >>]
    ELSE log

\* The local calendar of a timestamp (1970-01-01 was a Thursday).
WeekdayNames == <<"Thu", "Fri", "Sat", "Sun", "Mon", "Tue", "Wed">>
current_day(n) == WeekdayNames[((n \div SecondsPerDay) % 7) + 1]
current_time(n) == n % SecondsPerDay

\* NaiveTime::parse_from_str(s, "%H:%M"), in seconds since midnight.
ParseTime(s) ==
    CASE s = "00:00" -> Some(0)
      [] s = "00:01" -> Some(60)
      [] s = "00:02" -> Some(120)
      [] OTHER -> None

\* serde_json::from_str(days).unwrap_or_default()
ParseDays(s) ==
    CASE s = "[\"Thu\"]" -> {"Thu"}
      [] s = "[\"Fri\"]" -> {"Fri"}
      [] s = "[\"Thu\",\"Fri\"]" -> {"Thu", "Fri"}
      [] OTHER -> {}

\* check_scheduled_sessions' window test with the end of the window left out.
RuleMatchesEndExclusive(r, n) ==
    /\ r.enabled
    /\ current_day(n) \in ParseDays(r.days)
    /\ IsSome(ParseTime(r.start_time))
    /\ IsSome(ParseTime(r.end_time))
    /\ current_time(n) >= ParseTime(r.start_time)[1]
    /\ current_time(n) < ParseTime(r.end_time)[1]

RuleMatches(r, n) ==
    /\ r.enabled
    /\ current_day(n) \in ParseDays(r.days)
    /\ IsSome(ParseTime(r.start_time))
    /\ IsSome(ParseTime(r.end_time))
    /\ current_time(n) >= ParseTime(r.start_time)[1]
    /\ current_time(n) <= ParseTime(r.end_time)[1]

\* check_scheduled_sessions
check_scheduled_sessions(rules, n) ==
    LET hits == {i \in 1..Len(rules) : RuleMatches(rules[i], n)}
    IN  IF hits = {} THEN None
        ELSE Some(rules[CHOOSE i \in hits : \A j \in hits : i <= j])

-----------------------------------------------------------------------------
(* blocking.rs: the hosts file *)

BASTION_MARKER_START == "# === BASTION BLOCK START ==="
BASTION_MARKER_END == "# === BASTION BLOCK END ==="
NL == "\n"

\* str::find on a token: the first position holding it.
Find(contents, tok) ==
    LET at == {i \in 1..Len(contents) : contents[i] = tok}
    IN  IF at = {} THEN None ELSE Some(CHOOSE i \in at : \A j \in at : i <= j)

\* get_bastion_section computes start_idx (the offset START begins at) and
\* end_idx (the offset END ends at), each found on its own; offsets are counted
\* in tokens before the position.
SectionStart(contents) == Find(contents, BASTION_MARKER_START)[1] - 1
SectionEnd(contents) == Find(contents, BASTION_MARKER_END)[1]

HasSection(contents) ==
    /\ IsSome(Find(contents, BASTION_MARKER_START))
    /\ IsSome(Find(contents, BASTION_MARKER_END))

\* &contents[start_idx..end_idx] panics when start_idx > end_idx.
get_bastion_section_panics(contents) ==
    HasSection(contents) /\ SectionStart(contents) > SectionEnd(contents)

\* The redirect lines of one domain with the www lines ahead of the bare ones.
DomainEntriesWwwFirst(domain) ==
    <<"127.0.0.1 www." \o domain, NL, "127.0.0.1 " \o domain, NL,
      "::1 www." \o domain, NL, "::1 " \o domain, NL>>

\* The four redirect lines of one domain, each with its newline.
DomainEntries(domain) ==
    <<"127.0.0.1 " \o domain, NL, "127.0.0.1 www." \o domain, NL,
      "::1 " \o domain, NL, "::1 www." \o domain, NL>>

RECURSIVE AllEntries(_)
AllEntries(domains) ==
    IF domains = << >> THEN << >>
    ELSE DomainEntries(Head(domains)) \o AllEntries(Tail(domains))

\* generate_block_entries
generate_block_entries(domains) ==
    <<BASTION_MARKER_START, NL>> \o AllEntries(domains) \o <<BASTION_MARKER_END>>

\* update_blocked_websites with lines 107-109 left out: the old section stays.
RemoveSectionKept(contents) == contents

\* update_blocked_websites, lines 107-109: the existing section cut out.
RemoveSection(contents) ==
    IF HasSection(contents)
    THEN SubSeq(contents, 1, SectionStart(contents))
         \o SubSeq(contents, SectionEnd(contents) + 1, Len(contents))
    ELSE contents

\* update_blocked_websites, lines 112-117: the new section appended.
AppendSection(contents, domains) ==
    IF domains # << >>
    THEN contents \o <<NL, NL>> \o generate_block_entries(domains) \o <<NL>>
    ELSE contents

\* update_blocked_websites: the content handed to write_hosts.
NewHostsContent(contents, domains) ==
    AppendSection(RemoveSection(contents), domains)

-----------------------------------------------------------------------------
(* storage.rs: the tables the commands read and write.  A row keeps the     *)
(* columns the core reads (id, the identity column, enabled).               *)

Domains == {"a.com"}
ProcessNames == {"game.exe"}
Passwords == {"secret", "guess"}

\* The rules the UI submits to add_session.
RuleInputs ==
    {[name |-> "sched", start_time |-> "00:00", end_time |-> "00:01",
      days |-> "[\"Thu\"]", hardcore |-> h, enabled |-> TRUE] : h \in BOOLEAN}

Ids == 1..(MaxRows + 1)

\* The rows of a table without the row of identity id (DELETE ... WHERE id = ?1).
RECURSIVE DeleteRow(_, _)
DeleteRow(rows, id) ==
    IF rows = << >> THEN << >>
    ELSE IF Head(rows).id = id THEN DeleteRow(Tail(rows), id)
    ELSE <<Head(rows)>> \o DeleteRow(Tail(rows), id)

\* UPDATE ... SET enabled = ?2 WHERE id = ?1
ToggleRow(rows, id, enabled) ==
    [i \in 1..Len(rows) |->
        IF rows[i].id = id THEN [rows[i] EXCEPT !.enabled = enabled] ELSE rows[i]]

\* lib.rs sync_blocked_websites, lines 74-78: the enabled domains in row order.
RECURSIVE EnabledDomains(_)
EnabledDomains(rows) ==
    IF rows = << >> THEN << >>
    ELSE IF Head(rows).enabled
    THEN <<Head(rows).domain>> \o EnabledDomains(Tail(rows))
    ELSE EnabledDomains(Tail(rows))

\* What write_hosts can do with a content: succeed, or fail at open (the file
\* is left as it was).  A content beyond MaxHostsLen is only ever refused.
WriteOutcomes(contents) ==
    IF Len(contents) <= MaxHostsLen THEN {TRUE, FALSE} ELSE {FALSE}

\* lib.rs sync_blocked_websites after the table was read: the hosts file it
\* leaves.  update_blocked_websites fails when the slice panics or the write
\* is denied, and the error is only logged.
SyncedHosts(contents, rows, write_ok) ==
    IF get_bastion_section_panics(contents) \/ ~write_ok THEN contents
    ELSE NewHostsContent(contents, EnabledDomains(rows))

\* A guard that never refuses.
HardcoreGuardOff(locked) == FALSE

\* The guard every gated command starts with.
HardcoreGuard(locked) == locked

\* What the UI got back from the last command; ended is the session the command
\* took out of active_session (kept for the properties, not program state).
Ok(cmd) == [cmd |-> cmd, ok |-> TRUE, ended |-> << >>]
Err(cmd) == [cmd |-> cmd, ok |-> FALSE, ended |-> << >>]
OkEnded(cmd, session) == [cmd |-> cmd, ok |-> TRUE, ended |-> session]

sessionVars == <<active_session, is_hardcore_locked>>
dbVars == <<blocked_sites, blocked_apps, sessions, next_id, master_password_hash,
            block_events>>
hbVars == <<hb_pc, enforcement_counter, hb_local, tick_no>>
netVars == <<data, parsed, conn, udp, custom_warning_text, listeners, lock_tasks>>
hsVars == <<hs_initial, hs_log, pomodoro_log, netVars>>

-----------------------------------------------------------------------------
(* lib.rs: the commands.  Each runs on the UI thread, one at a time.        *)

\* A site command that hands the sync's error back to the UI.
SiteMutationFailFast(cmd, rows) ==
    \E write_ok \in WriteOutcomes(NewHostsContent(hosts, EnabledDomains(rows))) :
        /\ blocked_sites' = rows
        /\ hosts' = SyncedHosts(hosts, rows, write_ok)
        /\ result' = IF write_ok THEN Ok(cmd) ELSE Err(cmd)

\* A site command after its guard: the table written, then the hosts file synced.
SiteMutation(cmd, rows) ==
    \E write_ok \in WriteOutcomes(NewHostsContent(hosts, EnabledDomains(rows))) :
        /\ blocked_sites' = rows
        /\ hosts' = SyncedHosts(hosts, rows, write_ok)
        /\ result' = Ok(cmd)

add_blocked_site(domain) ==
    /\ IF HardcoreGuard(is_hardcore_locked)
          \/ (\E i \in 1..Len(blocked_sites) : blocked_sites[i].domain = domain)
       THEN /\ result' = Err("add_blocked_site")
            /\ UNCHANGED <<blocked_sites, hosts, next_id>>
       ELSE /\ next_id.sites <= MaxRows
            /\ SiteMutation("add_blocked_site",
                   Append(blocked_sites,
                          [id |-> next_id.sites, domain |-> domain, enabled |-> TRUE]))
            /\ next_id' = [next_id EXCEPT !.sites = next_id.sites + 1]
    /\ UNCHANGED <<now, sessionVars, pomodoro_state, blocked_apps, sessions,
                   master_password_hash, block_events, hbVars, procs, hsVars>>

toggle_blocked_site(id, enabled) ==
    /\ IF HardcoreGuard(is_hardcore_locked)
       THEN /\ result' = Err("toggle_blocked_site")
            /\ UNCHANGED <<blocked_sites, hosts>>
       ELSE SiteMutation("toggle_blocked_site", ToggleRow(blocked_sites, id, enabled))
    /\ UNCHANGED <<now, sessionVars, pomodoro_state, blocked_apps, sessions, next_id,
                   master_password_hash, block_events, hbVars, procs, hsVars>>

delete_blocked_site(id) ==
    /\ IF HardcoreGuard(is_hardcore_locked)
       THEN /\ result' = Err("delete_blocked_site")
            /\ UNCHANGED <<blocked_sites, hosts>>
       ELSE SiteMutation("delete_blocked_site", DeleteRow(blocked_sites, id))
    /\ UNCHANGED <<now, sessionVars, pomodoro_state, blocked_apps, sessions, next_id,
                   master_password_hash, block_events, hbVars, procs, hsVars>>

add_blocked_app(process_name) ==
    /\ IF HardcoreGuard(is_hardcore_locked)
          \/ (\E i \in 1..Len(blocked_apps) : blocked_apps[i].process_name = process_name)
       THEN /\ result' = Err("add_blocked_app")
            /\ UNCHANGED <<blocked_apps, next_id>>
       ELSE /\ next_id.apps <= MaxRows
            /\ blocked_apps' = Append(blocked_apps,
                   [id |-> next_id.apps, process_name |-> process_name, enabled |-> TRUE])
            /\ next_id' = [next_id EXCEPT !.apps = next_id.apps + 1]
            /\ result' = Ok("add_blocked_app")
    /\ UNCHANGED <<now, sessionVars, pomodoro_state, blocked_sites, sessions, hosts,
                   master_password_hash, block_events, hbVars, procs, hsVars>>

toggle_blocked_app(id, enabled) ==
    /\ IF HardcoreGuard(is_hardcore_locked)
       THEN /\ result' = Err("toggle_blocked_app")
            /\ UNCHANGED blocked_apps
       ELSE /\ blocked_apps' = ToggleRow(blocked_apps, id, enabled)
            /\ result' = Ok("toggle_blocked_app")
    /\ UNCHANGED <<now, sessionVars, pomodoro_state, blocked_sites, sessions, next_id,
                   hosts, master_password_hash, block_events, hbVars, procs, hsVars>>

delete_blocked_app(id) ==
    /\ IF HardcoreGuard(is_hardcore_locked)
       THEN /\ result' = Err("delete_blocked_app")
            /\ UNCHANGED blocked_apps
       ELSE /\ blocked_apps' = DeleteRow(blocked_apps, id)
            /\ result' = Ok("delete_blocked_app")
    /\ UNCHANGED <<now, sessionVars, pomodoro_state, blocked_sites, sessions, next_id,
                   hosts, master_password_hash, block_events, hbVars, procs, hsVars>>

\* add_session and delete_session go to the table with no guard.
add_session(rule) ==
    /\ next_id.sessions <= MaxRows
    /\ sessions' = Append(sessions,
           [id |-> next_id.sessions, name |-> rule.name,
            start_time |-> rule.start_time, end_time |-> rule.end_time,
            days |-> rule.days, hardcore |-> rule.hardcore, enabled |-> rule.enabled])
    /\ next_id' = [next_id EXCEPT !.sessions = next_id.sessions + 1]
    /\ result' = Ok("add_session")
    /\ UNCHANGED <<now, sessionVars, pomodoro_state, blocked_sites, blocked_apps, hosts,
                   master_password_hash, block_events, hbVars, procs, hsVars>>

delete_session(id) ==
    /\ sessions' = DeleteRow(sessions, id)
    /\ result' = Ok("delete_session")
    /\ UNCHANGED <<now, sessionVars, pomodoro_state, blocked_sites, blocked_apps, hosts,
                   next_id, master_password_hash, block_events, hbVars, procs, hsVars>>

\* The commands that only run a SessionManager method behind the guard.
PomodoroCommand(cmd, st) ==
    /\ IF HardcoreGuard(is_hardcore_locked)
          \/ pomodoro_state.poisoned      \* lock().unwrap() panics
       THEN /\ result' = Err(cmd)
            /\ UNCHANGED <<pomodoro_state, pomodoro_log>>
       ELSE /\ pomodoro_state' = st
            /\ pomodoro_log' = LogCommand(pomodoro_log, cmd)
            /\ result' = Ok(cmd)
    /\ UNCHANGED <<now, sessionVars, dbVars, hosts, hbVars, procs, hs_initial, hs_log,
                   netVars>>

\* SessionManager::pomodoro_reset
pomodoro_reset_state(st) ==
    [st EXCEPT !.time_remaining =
                   CASE st.phase = "Work" -> st.work_duration
                     [] st.phase = "Break" -> st.break_duration
                     [] OTHER -> st.long_break_duration,
               !.is_running = FALSE]

\* pomodoro_configure resetting the timer in every phase.
pomodoro_configure_state_any_phase(st, work, short_break, long_break, n) ==
    [st EXCEPT !.work_duration = work, !.break_duration = short_break,
               !.long_break_duration = long_break,
               !.sessions_until_long_break = n,
               !.time_remaining = work]

\* SessionManager::pomodoro_configure
pomodoro_configure_state(st, work, short_break, long_break, n) ==
    [st EXCEPT !.work_duration = work, !.break_duration = short_break,
               !.long_break_duration = long_break,
               !.sessions_until_long_break = n,
               !.time_remaining = IF st.phase = "Work" THEN work ELSE st.time_remaining]

pomodoro_start ==
    PomodoroCommand("pomodoro_start", [pomodoro_state EXCEPT !.is_running = TRUE])

pomodoro_pause ==
    PomodoroCommand("pomodoro_pause", [pomodoro_state EXCEPT !.is_running = FALSE])

pomodoro_reset ==
    PomodoroCommand("pomodoro_reset", pomodoro_reset_state(pomodoro_state))

\* pomodoro_configure has no guard and returns nothing.
pomodoro_configure(work, short_break, long_break, n) ==
    /\ IF pomodoro_state.poisoned          \* lock().unwrap() panics
       THEN /\ result' = Err("pomodoro_configure")
            /\ UNCHANGED <<pomodoro_state, pomodoro_log>>
       ELSE /\ pomodoro_state' =
                   pomodoro_configure_state(pomodoro_state, work, short_break,
                                            long_break, n)
            /\ pomodoro_log' = LogConfigure(pomodoro_log, pomodoro_state, work)
            /\ result' = Ok("pomodoro_configure")
    /\ UNCHANGED <<now, sessionVars, dbVars, hosts, hbVars, procs, hs_initial, hs_log,
                   netVars>>

\* The configurations the UI submits to pomodoro_configure.
PomodoroConfigs == {<<2, 1, 2, 2>>}

start_focus_session(name, duration_minutes, hardcore) ==
    /\ is_hardcore_locked' = StartSessionLock(is_hardcore_locked, hardcore)
    /\ active_session' =
           StartSessionActive(active_session, now, name, duration_minutes, hardcore)
    /\ result' = Ok("start_focus_session")
    /\ UNCHANGED <<now, pomodoro_state, dbVars, hosts, hbVars, procs, hsVars>>

end_focus_session ==
    /\ IF EndSessionRefused(active_session, now)
       THEN /\ result' = Err("end_focus_session")
            /\ UNCHANGED sessionVars
       ELSE /\ active_session' = None
            /\ is_hardcore_locked' = FALSE
            /\ result' = OkEnded("end_focus_session", active_session)
    /\ UNCHANGED <<now, pomodoro_state, dbVars, hosts, hbVars, procs, hsVars>>

\* The PHC string argon2 stores for a password.
Hash(password) == "$argon2id$" \o password

\* verify_master_password: "true", "false" or "error".
verify_master_password(hash_opt, password, db_ok) ==
    IF ~db_ok THEN "error"
    ELSE IF ~IsSome(hash_opt) THEN "false"
    ELSE IF hash_opt[1] \notin {Hash(p) : p \in Passwords} THEN "error"
    ELSE IF hash_opt[1] = Hash(password) THEN "true" ELSE "false"

\* A variant that takes any answer but an error for a verified password.
EmergencyUnlockValidLax(hash_opt, password, db_ok) ==
    verify_master_password(hash_opt, password, db_ok) # "error"

\* emergency_unlock: whether it goes on to force_end_session.
EmergencyUnlockValid(hash_opt, password, db_ok) ==
    verify_master_password(hash_opt, password, db_ok) = "true"

\* SessionManager::force_end_session: the session and the lock cleared,
\* whatever the remaining time.
force_end_session ==
    /\ active_session' = None
    /\ is_hardcore_locked' = FALSE

emergency_unlock(password, db_ok) ==
    /\ IF EmergencyUnlockValid(master_password_hash, password, db_ok)
       THEN /\ force_end_session
            /\ result' = OkEnded("emergency_unlock", active_session)
       ELSE /\ result' = Err("emergency_unlock")
            /\ UNCHANGED sessionVars
    /\ UNCHANGED <<now, pomodoro_state, dbVars, hosts, hbVars, procs, hsVars>>

set_master_password(password) ==
    /\ master_password_hash' = Some(Hash(password))
    /\ result' = Ok("set_master_password")
    /\ UNCHANGED <<now, sessionVars, pomodoro_state, blocked_sites, blocked_apps,
                   sessions, next_id, block_events, hosts, hbVars, procs, hsVars>>

\* set_setting on the key master_password_hash.
set_setting(value) ==
    /\ master_password_hash' = Some(value)
    /\ result' = Ok("set_setting")
    /\ UNCHANGED <<now, sessionVars, pomodoro_state, blocked_sites, blocked_apps,
                   sessions, next_id, block_events, hosts, hbVars, procs, hsVars>>

\* Wall-clock time passes.
ClockAdvance ==
    /\ now + ClockStep <= MaxTime
    /\ now' = now + ClockStep
    /\ UNCHANGED <<sessionVars, pomodoro_state, dbVars, hosts, hbVars, procs, result,
                   hsVars>>

-----------------------------------------------------------------------------
(* blocking.rs: the process enforcer *)

SYSTEM_WHITELIST ==
    {"explorer.exe", "dwm.exe", "taskhostw.exe", "lsass.exe", "csrss.exe",
     "wininit.exe", "winlogon.exe", "services.exe", "System", "Registry",
     "smss.exe", "fontdrvhost.exe", "svchost.exe", "taskmgr.exe",
     "shellexperiencehost.exe", "searchhost.exe", "startmenuexperiencehost.exe"}

\* str::to_lowercase on the names the model uses.
to_lowercase(name) ==
    CASE name = "Game.exe" -> "game.exe"
      [] name = "Explorer.EXE" -> "explorer.exe"
      [] name = "System" -> "system"
      [] name = "Registry" -> "registry"
      [] OTHER -> name

\* The whitelist compared as written, without w.to_lowercase().
WhitelistAsWritten == SYSTEM_WHITELIST

WhitelistLower == {to_lowercase(w) : w \in SYSTEM_WHITELIST}

\* lines 363-366: blocked_lower.
blocked_lower(blocked) ==
    {to_lowercase(blocked[i]) : i \in 1..Len(blocked)} \ WhitelistLower

\* lines 356-360: the OS process table is refreshed as soon as the blocked list
\* is not empty, before blocked_lower is built and tested at line 368.
RefreshesProcesses(blocked) == blocked # << >>

\* lines 370-382: the live processes enforce_app_blocks signals.
Signalled(blocked, table) ==
    IF blocked = << >> \/ blocked_lower(blocked) = {} THEN {}
    ELSE {p \in table : /\ to_lowercase(p) \notin WhitelistLower
                        /\ to_lowercase(p) \in blocked_lower(blocked)}

\* lines 385-389: the original spelling reported for a signalled process.
OriginalName(blocked, p) ==
    LET at == {i \in 1..Len(blocked) : to_lowercase(blocked[i]) = to_lowercase(p)}
    IN  blocked[CHOOSE i \in at : \A j \in at : i <= j]

\* enforce_app_blocks: the names it returns (the process table is walked in
\* no fixed order, so the result is kept as a set).
enforce_app_blocks(blocked, table) ==
    {OriginalName(blocked, p) : p \in Signalled(blocked, table)}

\* lib.rs lines 457-461: the enabled process names in row order.
RECURSIVE EnabledProcessNames(_)
EnabledProcessNames(rows) ==
    IF rows = << >> THEN << >>
    ELSE IF Head(rows).enabled
    THEN <<Head(rows).process_name>> \o EnabledProcessNames(Tail(rows))
    ELSE EnabledProcessNames(Tail(rows))

\* The orders a set of names can be logged in.
Orderings(S) ==
    {q \in [1..Cardinality(S) -> S] : \A i, j \in 1..Cardinality(S) : q[i] = q[j] => i = j}

-----------------------------------------------------------------------------
(* lib.rs: the Core Background Loop, one action per critical section.       *)

NoLocal == [name |-> "", hardcore |-> FALSE, n |-> 0]

\* An enforcement block entered from the second tick on.
EnforcementDueEarly(counter) == counter + 1 >= EnforcementPeriod - 1

\* lines 427-428: the counter incremented and compared with 3.
EnforcementDue(counter) == counter + 1 >= EnforcementPeriod

\* lines 401-430: the tick, the Pomodoro tick and the enforcement counter.
HbTick ==
    /\ hb_pc = "sleep"
    /\ tick_no < MaxTicks
    /\ tick_no' = tick_no + 1
    /\ IF pomodoro_state.poisoned \/ PomodoroTickPanics(pomodoro_state)
       THEN /\ pomodoro_state' = IF pomodoro_state.poisoned THEN pomodoro_state
                                 ELSE pomodoro_tick_unwound(pomodoro_state)
            /\ hb_pc' = "dead"
            /\ UNCHANGED <<pomodoro_log, enforcement_counter>>
       ELSE /\ pomodoro_state' = pomodoro_tick(pomodoro_state)
            /\ pomodoro_log' = LogTick(pomodoro_log, pomodoro_state)
            /\ IF EnforcementDue(enforcement_counter)
               THEN /\ enforcement_counter' = 0
                    /\ hb_pc' = "check_active"
               ELSE /\ enforcement_counter' = enforcement_counter + 1
                    /\ hb_pc' = "sleep"
    /\ UNCHANGED <<now, sessionVars, dbVars, hosts, hb_local, procs, result, hs_initial,
                   hs_log, netVars>>

\* lines 433-437: has_manual_session.
HbCheckActive ==
    /\ hb_pc = "check_active"
    /\ hb_pc' = IF IsSome(active_session) THEN "check_expired" ELSE "schedule"
    /\ UNCHANGED <<now, sessionVars, pomodoro_state, dbVars, hosts, enforcement_counter,
                   hb_local, tick_no, procs, result, hsVars>>

\* lines 438-439: the rules read and matched against the local time.
HbSchedule ==
    /\ hb_pc = "schedule"
    /\ \E db_ok \in BOOLEAN :
        LET hit == IF db_ok THEN check_scheduled_sessions(sessions, now) ELSE None
        IN  IF IsSome(hit)
            THEN /\ hb_local' = [name |-> hit[1].name, hardcore |-> hit[1].hardcore,
                                 n |-> now]
                 /\ hb_pc' = "start_store"
            ELSE /\ hb_pc' = "enforce"
                 /\ UNCHANGED hb_local
    /\ UNCHANGED <<now, sessionVars, pomodoro_state, dbVars, hosts, enforcement_counter,
                   tick_no, procs, result, hsVars>>

\* start_session lines 92-94, called at lib.rs line 441.
HbStartStore ==
    /\ hb_pc = "start_store"
    /\ is_hardcore_locked' = StartSessionLock(is_hardcore_locked, hb_local.hardcore)
    /\ hb_pc' = "start_assign"
    /\ UNCHANGED <<now, active_session, pomodoro_state, dbVars, hosts,
                   enforcement_counter, hb_local, tick_no, procs, result, hsVars>>

\* start_session lines 96-97.
HbStartAssign ==
    /\ hb_pc = "start_assign"
    /\ active_session' = StartSessionActive(active_session, hb_local.n, hb_local.name,
                                            ScheduledDuration, hb_local.hardcore)
    /\ hb_local' = NoLocal
    /\ hb_pc' = "enforce"
    /\ UNCHANGED <<now, is_hardcore_locked, pomodoro_state, dbVars, hosts,
                   enforcement_counter, tick_no, procs, result, hsVars>>

\* line 450: is_session_expired.
HbCheckExpired ==
    /\ hb_pc = "check_expired"
    /\ hb_pc' = IF is_session_expired(active_session, now) THEN "end_check" ELSE "enforce"
    /\ UNCHANGED <<now, sessionVars, pomodoro_state, dbVars, hosts, enforcement_counter,
                   hb_local, tick_no, procs, result, hsVars>>

\* end_session lines 103-114, called at lib.rs line 451: the check, then the
\* guard dropped.
HbEndCheck ==
    /\ hb_pc = "end_check"
    /\ hb_pc' = IF EndSessionRefused(active_session, now) THEN "enforce" ELSE "end_clear"
    /\ UNCHANGED <<now, sessionVars, pomodoro_state, dbVars, hosts, enforcement_counter,
                   hb_local, tick_no, procs, result, hsVars>>

\* end_session lines 116-119: the lock taken again, the session cleared.
HbEndClear ==
    /\ hb_pc = "end_clear"
    /\ active_session' = None
    /\ is_hardcore_locked' = FALSE
    /\ hb_pc' = "enforce"
    /\ UNCHANGED <<now, pomodoro_state, dbVars, hosts, enforcement_counter, hb_local,
                   tick_no, procs, result, hsVars>>

\* lines 456-475: the enabled apps read, their processes signalled (a signalled
\* process may survive), one block event logged per name returned.
HbEnforce ==
    /\ hb_pc = "enforce"
    /\ \E db_ok \in BOOLEAN :
        LET blocked == IF db_ok THEN EnabledProcessNames(blocked_apps) ELSE << >>
            killed == enforce_app_blocks(blocked, procs)
        IN  /\ \E died \in SUBSET Signalled(blocked, procs) : procs' = procs \ died
            /\ \E order \in Orderings(killed) :
                   block_events' = block_events \o
                       [i \in 1..Len(order) |-> [target |-> order[i], target_type |-> "app"]]
    /\ hb_pc' = "sleep"
    /\ UNCHANGED <<now, sessionVars, pomodoro_state, blocked_sites, blocked_apps, sessions,
                   next_id, master_password_hash, hosts, enforcement_counter, hb_local,
                   tick_no, result, hsVars>>

Heartbeat ==
    \/ HbTick \/ HbCheckActive \/ HbSchedule \/ HbStartStore \/ HbStartAssign
    \/ HbCheckExpired \/ HbEndCheck \/ HbEndClear \/ HbEnforce

-----------------------------------------------------------------------------
(* The session core: the session commands, the rule table and the heartbeat *)

InitProgram ==
    /\ now = 0
    /\ active_session = None
    /\ is_hardcore_locked = FALSE
    /\ pomodoro_state = DefaultPomodoro
    /\ blocked_sites = << >>
    /\ blocked_apps = << >>
    /\ sessions = << >>
    /\ next_id = [sites |-> 1, apps |-> 1, sessions |-> 1]
    /\ master_password_hash = None
    /\ hosts = <<"127.0.0.1 localhost", NL>>
    /\ hb_pc = "sleep"
    /\ enforcement_counter = 0
    /\ hb_local = NoLocal
    /\ tick_no = 0
    /\ procs = {"game.exe"}
    /\ block_events = << >>
    /\ result = Ok("none")

Init ==
    /\ InitProgram
    /\ hs_initial = << >>
    /\ hs_log = << >>
    /\ pomodoro_log = NoPomodoroLog
    /\ data = << >>
    /\ parsed = NotParsed
    /\ conn = NoConn
    /\ udp = UdpBound
    /\ custom_warning_text = << >>
    /\ listeners = Spawned
    /\ lock_tasks = NoTasks

SessionCommands ==
    \/ \E d \in {0, 1}, h \in BOOLEAN : start_focus_session("focus", d, h)
    \/ end_focus_session
    \/ \E p \in Passwords, db_ok \in BOOLEAN : emergency_unlock(p, db_ok)
    \/ set_master_password("secret")
    \/ set_setting("garbage")

Next ==
    \/ ClockAdvance
    \/ SessionCommands
    \/ \E r \in RuleInputs : add_session(r)
    \/ \E id \in Ids : delete_session(id)
    \/ Heartbeat

Spec == Init /\ [][Next]_vars

-----------------------------------------------------------------------------
(* The block lists behind the hardcore guard *)

BlocklistCommands ==
    \/ \E d \in Domains : add_blocked_site(d)
    \/ \E id \in Ids, e \in BOOLEAN : toggle_blocked_site(id, e)
    \/ \E id \in Ids : delete_blocked_site(id)
    \/ \E a \in ProcessNames : add_blocked_app(a)
    \/ \E id \in Ids, e \in BOOLEAN : toggle_blocked_app(id, e)
    \/ \E id \in Ids : delete_blocked_app(id)

NextBlocklist ==
    \/ ClockAdvance
    \/ \E d \in {0, 1}, h \in BOOLEAN : start_focus_session("focus", d, h)
    \/ end_focus_session
    \/ BlocklistCommands

SpecBlocklist == Init /\ [][NextBlocklist]_vars

-----------------------------------------------------------------------------
(* The Pomodoro timer: its commands behind the guard, the heartbeat ticking *)

PomodoroCommands ==
    \/ pomodoro_start
    \/ pomodoro_pause
    \/ pomodoro_reset
    \/ \E c \in PomodoroConfigs : pomodoro_configure(c[1], c[2], c[3], c[4])

NextPomodoro ==
    \/ ClockAdvance
    \/ \E d \in {0, 1}, h \in BOOLEAN : start_focus_session("focus", d, h)
    \/ end_focus_session
    \/ PomodoroCommands
    \/ HbTick \/ HbCheckActive \/ HbSchedule \/ HbCheckExpired \/ HbEndCheck
    \/ HbEndClear \/ HbEnforce

SpecPomodoro == Init /\ [][NextPomodoro]_vars

-----------------------------------------------------------------------------
(* The hosts-file synchronizer on its own: update_blocked_websites run again *)
(* and again on a file that starts with any content.                         *)

FileTokens == {"127.0.0.1 localhost", NL, BASTION_MARKER_START, BASTION_MARKER_END}

RECURSIVE SeqsUpTo(_, _)
SeqsUpTo(S, n) ==
    IF n = 0 THEN {<< >>}
    ELSE SeqsUpTo(S, n - 1)
         \cup {Append(q, x) : q \in {r \in SeqsUpTo(S, n - 1) : Len(r) = n - 1}, x \in S}

InitialFiles == SeqsUpTo(FileTokens, MaxFileLen)

DomainLists == {<< >>, <<"a.com">>, <<"a.com", "b.com">>}

\* update_blocked_websites: "ok", or "panic" when the slice is out of order.
update_blocked_websites_status(contents) ==
    IF get_bastion_section_panics(contents) THEN "panic" ELSE "ok"

\* update_blocked_websites: the file it leaves when the write goes through.
update_blocked_websites(contents, domains) ==
    IF get_bastion_section_panics(contents) THEN contents
    ELSE NewHostsContent(contents, domains)

HostsSync(domains) ==
    /\ Len(hs_log) < MaxSyncs
    /\ hosts' = update_blocked_websites(hosts, domains)
    /\ hs_log' = Append(hs_log,
           [domains |-> domains, status |-> update_blocked_websites_status(hosts),
            before |-> hosts, after |-> update_blocked_websites(hosts, domains)])
    /\ UNCHANGED <<now, sessionVars, pomodoro_state, dbVars, hbVars, procs, result,
                   hs_initial, pomodoro_log, netVars>>

InitHosts ==
    /\ now = 0
    /\ active_session = None
    /\ is_hardcore_locked = FALSE
    /\ pomodoro_state = DefaultPomodoro
    /\ blocked_sites = << >>
    /\ blocked_apps = << >>
    /\ sessions = << >>
    /\ next_id = [sites |-> 1, apps |-> 1, sessions |-> 1]
    /\ master_password_hash = None
    /\ hb_pc = "sleep"
    /\ enforcement_counter = 0
    /\ hb_local = NoLocal
    /\ tick_no = 0
    /\ procs = {"game.exe"}
    /\ block_events = << >>
    /\ result = Ok("none")
    /\ hs_initial \in InitialFiles
    /\ hosts = hs_initial
    /\ hs_log = << >>
    /\ pomodoro_log = NoPomodoroLog
    /\ data = << >>
    /\ parsed = NotParsed
    /\ conn = NoConn
    /\ udp = UdpBound
    /\ custom_warning_text = << >>
    /\ listeners = Spawned
    /\ lock_tasks = NoTasks

NextHosts == \E domains \in DomainLists : HostsSync(domains)

SpecHosts == InitHosts /\ [][NextHosts]_vars

-----------------------------------------------------------------------------
(* The process enforcer on its own: the enforce_app_blocks command run on   *)
(* any small blocked-apps table and any small process table.                *)

EnforceNames == {"game.exe", "Game.exe", "explorer.exe", "Explorer.EXE", "System"}

\* The blocked_apps tables of up to MaxApps rows, process_name being UNIQUE.
AppRows(n) ==
    {q \in [1..n -> [id : 1..n, process_name : EnforceNames, enabled : BOOLEAN]] :
        /\ \A i \in 1..n : q[i].id = i
        /\ \A i, j \in 1..n : q[i].process_name = q[j].process_name => i = j}

AppTables == UNION {AppRows(n) : n \in 0..MaxApps}

\* What the command hands back: the names killed, with the processes signalled,
\* those of them that went away, and whether the process table was refreshed.
EnforceResult(killed, signalled, died, refreshed) ==
    [cmd |-> "enforce_app_blocks", ok |-> TRUE, ended |-> None,
     killed |-> killed, signalled |-> signalled, died |-> died,
     refreshed |-> refreshed]

\* lib.rs, the enforce_app_blocks command.
enforce_app_blocks_command ==
    /\ \E db_ok \in BOOLEAN :
        IF db_ok
        THEN LET blocked == EnabledProcessNames(blocked_apps)
                 killed == enforce_app_blocks(blocked, procs)
             IN  /\ Len(block_events) + Cardinality(killed) <= MaxEvents
                 /\ \E died \in SUBSET Signalled(blocked, procs) :
                        /\ procs' = procs \ died
                        /\ result' = EnforceResult(killed, Signalled(blocked, procs), died,
                                                 RefreshesProcesses(blocked))
                 /\ \E order \in Orderings(killed) :
                        block_events' = block_events \o
                            [i \in 1..Len(order) |->
                                [target |-> order[i], target_type |-> "app"]]
        ELSE /\ result' = Err("enforce_app_blocks")
             /\ UNCHANGED <<procs, block_events>>
    /\ UNCHANGED <<now, sessionVars, pomodoro_state, blocked_sites, blocked_apps, sessions,
                   next_id, master_password_hash, hosts, hbVars, hsVars>>

\* A program of the machine starts.
ProcessStart(p) ==
    /\ p \notin procs
    /\ procs' = procs \cup {p}
    /\ UNCHANGED <<now, sessionVars, pomodoro_state, dbVars, hosts, hbVars, result, hsVars>>

InitEnforce ==
    /\ now = 0
    /\ active_session = None
    /\ is_hardcore_locked = FALSE
    /\ pomodoro_state = DefaultPomodoro
    /\ blocked_sites = << >>
    /\ blocked_apps \in AppTables
    /\ sessions = << >>
    /\ next_id = [sites |-> 1, apps |-> Len(blocked_apps) + 1, sessions |-> 1]
    /\ master_password_hash = None
    /\ hosts = <<"127.0.0.1 localhost", NL>>
    /\ hb_pc = "sleep"
    /\ enforcement_counter = 0
    /\ hb_local = NoLocal
    /\ tick_no = 0
    /\ procs \in SUBSET EnforceNames
    /\ block_events = << >>
    /\ result = Ok("none")
    /\ hs_initial = hosts
    /\ hs_log = << >>
    /\ pomodoro_log = NoPomodoroLog
    /\ data = << >>
    /\ parsed = NotParsed
    /\ conn = NoConn
    /\ udp = UdpBound
    /\ custom_warning_text = << >>
    /\ listeners = Spawned
    /\ lock_tasks = NoTasks

NextEnforce ==
    \/ enforce_app_blocks_command
    \/ \E p \in EnforceNames : ProcessStart(p)

SpecEnforce == InitEnforce /\ [][NextEnforce]_vars

-----------------------------------------------------------------------------
(* The heartbeat's enforcement on any small blocked-apps table, with a focus *)
(* session started and ended by the user.                                    *)

NextSessionEnforce ==
    \/ start_focus_session("focus", 1, FALSE)
    \/ end_focus_session
    \/ HbTick \/ HbCheckActive \/ HbSchedule \/ HbCheckExpired \/ HbEnforce

SpecSessionEnforce == InitEnforce /\ [][NextSessionEnforce]_vars

-----------------------------------------------------------------------------
(* The block lists with reset_all_blocks beside the six guarded commands    *)

\* lib.rs reset_all_blocks: every blocked app and site deleted, then the hosts
\* file synced with the empty list; a store error comes back before any change.
reset_all_blocks ==
    /\ \E db_ok \in BOOLEAN :
        IF db_ok
        THEN \E write_ok \in WriteOutcomes(NewHostsContent(hosts, << >>)) :
                /\ blocked_apps' = << >>
                /\ blocked_sites' = << >>
                /\ hosts' = SyncedHosts(hosts, << >>, write_ok)
                /\ result' = Ok("reset_all_blocks")
        ELSE /\ result' = Err("reset_all_blocks")
             /\ UNCHANGED <<blocked_apps, blocked_sites, hosts>>
    /\ UNCHANGED <<now, sessionVars, pomodoro_state, sessions, next_id,
                   master_password_hash, block_events, hbVars, procs, hsVars>>

NextReset ==
    \/ NextBlocklist
    \/ reset_all_blocks

SpecReset == Init /\ [][NextReset]_vars

-----------------------------------------------------------------------------

(* The Pomodoro timer on its own: the four commands and the heartbeat's tick, *)
(* with no session and no rule.                                               *)

\* The argument values pomodoro_configure is called with: the durations are
\* i64 and the count i32, taken as they come.
TimerConfigs == {<<2, 1, 2, 4>>, <<0, 0, 0, 2>>, <<-1, 1, 1, 2>>}

NextTimer ==
    \/ pomodoro_start
    \/ pomodoro_pause
    \/ pomodoro_reset
    \/ \E c \in TimerConfigs : pomodoro_configure(c[1], c[2], c[3], c[4])
    \/ HbTick \/ HbCheckActive \/ HbSchedule \/ HbEnforce

SpecTimer == Init /\ [][NextTimer]_vars

-----------------------------------------------------------------------------

(* The schedule check on its own: the heartbeat and start_focus_session on  *)
(* any small table of rules left by earlier runs.                           *)

RuleWindows == {<<"00:00", "00:01">>, <<"00:01", "00:02">>, <<"00:00", "24:00">>}
RuleDays == {"[\"Thu\"]", "[\"Fri\"]"}
RuleNames == <<"r1", "r2", "r3", "r4">>

\* The rows a rule can be stored as at position i of the table; the rule at
\* the head of the table is stored with either value of hardcore.
RuleRowsAt(i) ==
    {[id |-> i, name |-> RuleNames[i], start_time |-> w[1], end_time |-> w[2],
      days |-> d, hardcore |-> h, enabled |-> e] :
        w \in RuleWindows, d \in RuleDays, e \in BOOLEAN,
        h \in IF i = 1 THEN BOOLEAN ELSE {FALSE}}

\* The sessions tables of up to n rows.
RECURSIVE RuleTablesUpTo(_)
RuleTablesUpTo(n) ==
    IF n = 0 THEN {<< >>}
    ELSE RuleTablesUpTo(n - 1)
         \cup {Append(t, r) : t \in {u \in RuleTablesUpTo(n - 1) : Len(u) = n - 1},
                              r \in RuleRowsAt(n)}

RuleTables == RuleTablesUpTo(MaxRules)

InitSchedule ==
    /\ now = 0
    /\ active_session = None
    /\ is_hardcore_locked = FALSE
    /\ pomodoro_state = DefaultPomodoro
    /\ blocked_sites = << >>
    /\ blocked_apps = << >>
    /\ sessions \in RuleTables
    /\ next_id = [sites |-> 1, apps |-> 1, sessions |-> Len(sessions) + 1]
    /\ master_password_hash = None
    /\ hosts = <<"127.0.0.1 localhost", NL>>
    /\ hb_pc = "sleep"
    /\ enforcement_counter = 0
    /\ hb_local = NoLocal
    /\ tick_no = 0
    /\ procs = {"game.exe"}
    /\ block_events = << >>
    /\ result = Ok("none")
    /\ hs_initial = << >>
    /\ hs_log = << >>
    /\ pomodoro_log = NoPomodoroLog
    /\ data = << >>
    /\ parsed = NotParsed
    /\ conn = NoConn
    /\ udp = UdpBound
    /\ custom_warning_text = << >>
    /\ listeners = Spawned
    /\ lock_tasks = NoTasks

NextSchedule ==
    \/ ClockAdvance
    \/ start_focus_session("focus", 0, FALSE)
    \/ Heartbeat

SpecSchedule == InitSchedule /\ [][NextSchedule]_vars

-----------------------------------------------------------------------------

(* server.rs: the block server's TLS parser.  A buffer is a sequence of     *)
(* bytes; the source's index i is position i + 1 here.                      *)

\* data[i], and whether the index is inside the buffer (a read outside it panics).
ByteAt(buf, i) == buf[i + 1]
InBuffer(buf, i) == i < Len(buf)

\* ((data[pos] as usize) << 8) | (data[pos + 1] as usize)
U16At(buf, pos) == ByteAt(buf, pos) * 256 + ByteAt(buf, pos + 1)

\* String::from_utf8_lossy on single bytes: an ASCII byte is its character,
\* a lone byte above 127 becomes U+FFFD.
from_utf8_lossy(bytes) ==
    [i \in 1..Len(bytes) |-> IF bytes[i] < 128 THEN bytes[i] ELSE 65533]

SniNone == [done |-> TRUE, panicked |-> FALSE, value |-> None]
SniSome(name) == [done |-> TRUE, panicked |-> FALSE, value |-> Some(name)]
SniPanic == [done |-> TRUE, panicked |-> TRUE, value |-> None]

\* The extension loop runs while a whole extension header is left, as long as
\* one byte is left.
ExtensionHeaderLeftLoose(buf, pos) == pos < Len(buf)

\* line 246: while pos + 4 <= data.len()
ExtensionHeaderLeft(buf, pos) == pos + 4 <= Len(buf)

\* lines 251-266: the server_name extension whose body starts at pos.
RECURSIVE ExtensionLoop(_, _)
ServerNameExtension(buf, pos, ext_len) ==
    IF pos + 2 > Len(buf) THEN SniNone
    ELSE IF ~InBuffer(buf, pos + 1) THEN SniPanic
    ELSE LET p == pos + 2
         IN  IF p + 3 > Len(buf) THEN SniNone
             ELSE IF ~InBuffer(buf, p) THEN SniPanic
             ELSE IF ByteAt(buf, p) = 0
             THEN IF ~InBuffer(buf, p + 2) THEN SniPanic
                  ELSE LET name_len == U16At(buf, p + 1)
                           q == p + 3
                       IN  IF q + name_len <= Len(buf)
                           THEN SniSome(from_utf8_lossy(SubSeq(buf, q + 1, q + name_len)))
                           ELSE ExtensionLoop(buf, q + ext_len)
             ELSE ExtensionLoop(buf, p + ext_len)

\* lines 246-269: the walk over the extensions from pos.
ExtensionLoop(buf, pos) ==
    IF ~ExtensionHeaderLeft(buf, pos) THEN SniNone
    ELSE IF ~InBuffer(buf, pos + 3) THEN SniPanic
    ELSE LET ext_type == U16At(buf, pos)
             ext_len == U16At(buf, pos + 2)
         IN  IF ext_type = 0
             THEN ServerNameExtension(buf, pos + 4, ext_len)
             ELSE ExtensionLoop(buf, pos + 4 + ext_len)

\* lines 241-244: the extensions length at pos.
SkipExtensionsLength(buf, pos) ==
    IF pos + 2 >= Len(buf) THEN SniNone
    ELSE IF ~InBuffer(buf, pos + 1) THEN SniPanic
    ELSE ExtensionLoop(buf, pos + 2)

\* lines 236-239: the compression methods at pos.
SkipCompression(buf, pos) ==
    IF pos + 1 >= Len(buf) THEN SniNone
    ELSE IF ~InBuffer(buf, pos) THEN SniPanic
    ELSE SkipExtensionsLength(buf, pos + 1 + ByteAt(buf, pos))

\* lines 231-234: the cipher suites at pos.
SkipCipherSuites(buf, pos) ==
    IF pos + 2 >= Len(buf) THEN SniNone
    ELSE IF ~InBuffer(buf, pos + 1) THEN SniPanic
    ELSE SkipCompression(buf, pos + 2 + U16At(buf, pos))

\* parse_sni
parse_sni(buf) ==
    IF Len(buf) < MinClientHelloLen THEN SniNone
    ELSE IF ByteAt(buf, 0) # 22 THEN SniNone            \* 0x16, handshake
    ELSE IF ByteAt(buf, 5) # 1 THEN SniNone             \* 0x01, ClientHello
    ELSE IF MinClientHelloLen >= Len(buf) THEN SniNone
    ELSE SkipCipherSuites(buf, MinClientHelloLen + ByteAt(buf, 38))

\* char::to_lowercase on the code points the model uses (ASCII letters).
char_to_lowercase(c) == IF c >= 65 /\ c <= 90 THEN c + 32 ELSE c
str_to_lowercase(text) == [i \in 1..Len(text) |-> char_to_lowercase(text[i])]

\* char::is_whitespace on the code points the model uses.
IsWhitespace(c) == c \in {9, 10, 11, 12, 13, 32}

\* str::trim
RECURSIVE TrimStart(_)
TrimStart(text) ==
    IF text # << >> /\ IsWhitespace(Head(text)) THEN TrimStart(Tail(text)) ELSE text

RECURSIVE TrimEnd(_)
TrimEnd(text) ==
    IF text # << >> /\ IsWhitespace(text[Len(text)])
    THEN TrimEnd(SubSeq(text, 1, Len(text) - 1)) ELSE text

trim(text) == TrimEnd(TrimStart(text))

\* str::lines: the text split after each "\n", the "\n" and a "\r" before it
\* taken off; a last line without "\n" is kept as it is.
StripLineEnd(line) ==
    IF line # << >> /\ line[Len(line)] = 13 THEN SubSeq(line, 1, Len(line) - 1) ELSE line

RECURSIVE lines(_)
lines(text) ==
    IF text = << >> THEN << >>
    ELSE LET at == {i \in 1..Len(text) : text[i] = 10}
         IN  IF at = {} THEN <<text>>
             ELSE LET k == CHOOSE i \in at : \A j \in at : i <= j
                  IN  <<StripLineEnd(SubSeq(text, 1, k - 1))>>
                      \o lines(SubSeq(text, k + 1, Len(text)))

\* "host:"
HostPrefix == <<104, 111, 115, 116, 58>>

StartsWith(text, prefix) ==
    Len(text) >= Len(prefix) /\ SubSeq(text, 1, Len(prefix)) = prefix

\* The header test without to_lowercase.
IsHostLineExact(line) == StartsWith(line, HostPrefix)

\* line 279: line.to_lowercase().starts_with("host:")
IsHostLine(line) == StartsWith(str_to_lowercase(line), HostPrefix)

\* parse_host_header
parse_host_header(buf) ==
    LET ls == lines(from_utf8_lossy(buf))
        hits == {i \in 1..Len(ls) : IsHostLine(ls[i])}
    IN  IF hits = {} THEN None
        ELSE LET k == CHOOSE i \in hits : \A j \in hits : i <= j
             IN  Some(trim(SubSeq(ls[k], 6, Len(ls[k]))))

HostParsed(buf) == [done |-> TRUE, panicked |-> FALSE, value |-> parse_host_header(buf)]

DefaultWarningText == "Is this really worth breaking your focus?"

\* lines 117-200: the response of the port-80 listener.
Forbidden(warning_text) == [status |-> "403 Forbidden", body |-> warning_text]

\* The response of a listener that answers on either port.
ResponseForAnyPort(port, setting) ==
    Some(Forbidden(IF IsSome(setting) THEN setting[1] ELSE DefaultWarningText))

\* lines 116-203: the response handed to write_all; none on port 443.
ResponseFor(port, setting) ==
    IF port = 80
    THEN Some(Forbidden(IF IsSome(setting) THEN setting[1] ELSE DefaultWarningText))
    ELSE None

ReadOutcomes == {"timeout", "error", "ok"}

\* A match arm that takes every completed read, a zero-byte one included.
ReadGaveAnything(read, buf) == read = "ok"

\* line 102, `Ok(Ok(n)) if n > 0`: the read completed in time with n bytes.
ReadGaveData(read, buf) == read = "ok" /\ Len(buf) > 0

\* handle_connection: one read, the host name parsed and logged, the response.
handle_connection(port, read) ==
    /\ ~conn.closed
    /\ IF ReadGaveData(read, data)
       THEN LET domain == IF port = 443 THEN parse_sni(data) ELSE HostParsed(data)
            IN  /\ parsed' = domain
                /\ IF domain.panicked
                   THEN /\ conn' = [closed |-> TRUE, port |-> port, read |-> read,
                                    db_ok |-> FALSE, response |-> None]
                        /\ UNCHANGED block_events
                   ELSE \E db_ok, setting_ok \in BOOLEAN :
                        /\ block_events' =
                               IF IsSome(domain.value) /\ db_ok
                               THEN Append(block_events,
                                        [target |-> domain.value[1],
                                         target_type |-> "website"])
                               ELSE block_events
                        /\ conn' = [closed |-> TRUE, port |-> port, read |-> read,
                                    db_ok |-> db_ok,
                                    response |-> ResponseFor(port,
                                        IF setting_ok THEN custom_warning_text ELSE None)]
       ELSE /\ conn' = [closed |-> TRUE, port |-> port, read |-> read, db_ok |-> FALSE,
                        response |-> None]
            /\ UNCHANGED <<parsed, block_events>>
    /\ UNCHANGED <<now, sessionVars, pomodoro_state, blocked_sites, blocked_apps, sessions,
                   next_id, master_password_hash, hosts, hbVars, procs, result,
                   hs_initial, hs_log, pomodoro_log, data, udp, custom_warning_text,
                   listeners, lock_tasks>>

-----------------------------------------------------------------------------
(* The buffers the block server is run on *)

\* n bytes of value b.
Fill(n, b) == [i \in 1..n |-> b]

\* The two bytes of a length, high byte first.
Be16(n) == <<n \div 256, n % 256>>

ExampleCom == <<101, 120, 97, 109, 112, 108, 101, 46, 99, 111, 109>>
HostNames == {ExampleCom, <<97, 46, 98>>}

\* RFC 8446 4.1.2 and 4.2, RFC 6066 3: a ClientHello record with an empty
\* session id, one cipher suite, the null compression method and the
\* server_name extension alone; b38 is the byte of the random at index 38.
ServerNameList(h) == <<0>> \o Be16(Len(h)) \o h
SniExtension(h) ==
    <<0, 0>> \o Be16(Len(h) + 5) \o Be16(Len(h) + 3) \o ServerNameList(h)
ClientHelloBody(h, b38) ==
    <<3, 3>> \o Fill(27, 0) \o <<b38>> \o Fill(4, 0) \o <<0>> \o <<0, 2, 19, 1>>
    \o <<1, 0>> \o Be16(Len(SniExtension(h))) \o SniExtension(h)
ClientHello(h, b38) ==
    <<22, 3, 1>> \o Be16(Len(ClientHelloBody(h, b38)) + 4)
    \o <<1, 0>> \o Be16(Len(ClientHelloBody(h, b38))) \o ClientHelloBody(h, b38)

ValidHellos == {ClientHello(h, b) : h \in HostNames, b \in {0, 7}}

Prefixes(buf) == {SubSeq(buf, 1, n) : n \in 0..Len(buf)}

\* A handshake header with session-id byte b38, followed by any short tail.
SniHeader(b38) == <<22>> \o Fill(4, 0) \o <<1>> \o Fill(32, 0) \o <<b38>> \o Fill(4, 0)

Tails == UNION {[1..n -> {0, 1}] : n \in 0..MaxTail}

TailBuffers == {SniHeader(b) \o t : b \in {0, 1}, t \in Tails}

SniBuffers ==
    ValidHellos \cup UNION {Prefixes(x) : x \in ValidHellos} \cup TailBuffers
    \cup {<<0>> \o Tail(SniHeader(0)) \o Fill(MaxTail, 0)}

InitSni ==
    /\ InitProgram
    /\ hs_initial = << >>
    /\ hs_log = << >>
    /\ pomodoro_log = NoPomodoroLog
    /\ data \in SniBuffers
    /\ parsed = NotParsed
    /\ conn = NoConn
    /\ udp = UdpBound
    /\ custom_warning_text = << >>
    /\ listeners = Spawned
    /\ lock_tasks = NoTasks

NextSni == handle_connection(443, "ok")

SpecSni == InitSni /\ [][NextSni]_vars

-----------------------------------------------------------------------------

(* The block server on its own: one TCP connection on port 80 or 443 and    *)
(* the datagrams of the UDP/443 socket.                                     *)

\* Request lines as code points, with whether each is a Host header and the
\* value it carries: "GET /", "Host: a.b", "hOsT:c  ", "host:", "X-Host: d",
\* "Hos", " Host: e", and "Host: " followed by the byte 0xFF and "z".
RequestLines ==
    {[text |-> <<71, 69, 84, 32, 47>>, host |-> FALSE, value |-> << >>],
     [text |-> <<72, 111, 115, 116, 58, 32, 97, 46, 98>>, host |-> TRUE,
      value |-> <<97, 46, 98>>],
     [text |-> <<104, 79, 115, 84, 58, 99, 32, 32>>, host |-> TRUE, value |-> <<99>>],
     [text |-> <<104, 111, 115, 116, 58>>, host |-> TRUE, value |-> << >>],
     [text |-> <<88, 45, 72, 111, 115, 116, 58, 32, 100>>, host |-> FALSE,
      value |-> << >>],
     [text |-> <<72, 111, 115>>, host |-> FALSE, value |-> << >>],
     [text |-> <<32, 72, 111, 115, 116, 58, 32, 101>>, host |-> FALSE, value |-> << >>],
     [text |-> <<72, 111, 115, 116, 58, 32, 255, 122>>, host |-> TRUE,
      value |-> <<65533, 122>>]}

LineEnds == {<<10>>, <<13, 10>>}

RequestLists == UNION {[1..n -> RequestLines] : n \in 0..MaxLines}

\* The request made of the lines, each followed by the line end.
RECURSIVE Request(_, _)
Request(ls, end) ==
    IF Len(ls) = 0 THEN << >>
    ELSE ls[1].text \o end \o Request(SubSeq(ls, 2, Len(ls)), end)

HttpBuffers == {Request(ls, end) : ls \in RequestLists, end \in LineEnds}

\* A record laid out the way parse_sni walks it: the cipher-suite length at
\* index 43, no suites, no compression methods, the server_name extension.
WalkedHello(h) == SniHeader(0) \o <<0, 0>> \o <<0>> \o <<0, 0>> \o SniExtension(h)

ServerBuffers ==
    HttpBuffers
    \cup {ClientHello(ExampleCom, 0), WalkedHello(ExampleCom), SniHeader(0) \o Fill(14, 0)}

\* "QUIC/UDP Protocol", as the characters of the string.
QuicTarget == <<81, 85, 73, 67, 47, 85, 68, 80, 32, 80, 114, 111, 116, 111, 99, 111, 108>>

\* listen_on_udp, one round of the loop: a datagram of n bytes received, or
\* recv_from failing, which ends the task.
listen_on_udp(n) ==
    /\ udp.receiving
    /\ Len(udp.datagrams) < MaxDatagrams
    /\ \E recv_ok, db_ok \in BOOLEAN :
        IF recv_ok
        THEN /\ block_events' =
                    IF n > 0 /\ db_ok
                    THEN Append(block_events,
                             [target |-> QuicTarget, target_type |-> "website"])
                    ELSE block_events
             /\ udp' = [udp EXCEPT !.datagrams =
                            Append(@, [n |-> n, db_ok |-> db_ok,
                                       events |-> IF n > 0 /\ db_ok THEN 1 ELSE 0])]
        ELSE /\ udp' = [udp EXCEPT !.receiving = FALSE]
             /\ UNCHANGED block_events
    /\ UNCHANGED <<now, sessionVars, pomodoro_state, blocked_sites, blocked_apps, sessions,
                   next_id, master_password_hash, hosts, hbVars, procs, result,
                   hs_initial, hs_log, pomodoro_log, data, parsed, conn,
                   custom_warning_text, listeners, lock_tasks>>

InitServer ==
    /\ InitProgram
    /\ hs_initial = << >>
    /\ hs_log = << >>
    /\ pomodoro_log = NoPomodoroLog
    /\ data \in ServerBuffers
    /\ parsed = NotParsed
    /\ conn = NoConn
    /\ udp = UdpBound
    /\ custom_warning_text \in {None, Some("Back to work")}
    /\ listeners = Spawned
    /\ lock_tasks = NoTasks

NextServer == \E port \in {80, 443}, read \in ReadOutcomes : handle_connection(port, read)

SpecServer == InitServer /\ [][NextServer]_vars

\* The UDP listener of port 443 on its own: datagrams of 0 bytes and of 1 byte.
InitUdp ==
    /\ InitProgram
    /\ hs_initial = << >>
    /\ hs_log = << >>
    /\ pomodoro_log = NoPomodoroLog
    /\ data = << >>
    /\ parsed = NotParsed
    /\ conn = NoConn
    /\ udp = UdpBound
    /\ custom_warning_text = << >>
    /\ listeners = Spawned
    /\ lock_tasks = NoTasks

NextUdp == \E n \in {0, 1} : listen_on_udp(n)

SpecUdp == InitUdp /\ [][NextUdp]_vars

-----------------------------------------------------------------------------
(* server.rs start_block_server: the six listener tasks and their binds     *)

\* lines 27-31 and 47-51: the bind failures a task writes a warning for.
BindFailureLogged(e) ==
    IF e.proto = "tcp" THEN e.port = 80 \/ e.addr = "127.0.0.1"
    ELSE e.addr = "127.0.0.1"

\* One spawned task reaching its bind (listen_on_addr line 79, listen_on_udp
\* line 61): the endpoint listens, or the task ends with the error.
Bind(e, ok) ==
    /\ listeners[e].state = "spawned"
    /\ listeners' = [listeners EXCEPT ![e] =
                        IF ok THEN [state |-> "listening", logged |-> FALSE]
                        ELSE [state |-> "failed", logged |-> BindFailureLogged(e)]]
    /\ UNCHANGED <<now, sessionVars, pomodoro_state, dbVars, hosts, hbVars, procs, result,
                   hs_initial, hs_log, pomodoro_log, data, parsed, conn, udp,
                   custom_warning_text, lock_tasks>>

NextListeners == \E e \in Endpoints, ok \in BOOLEAN : Bind(e, ok)

SpecListeners == Init /\ [][NextListeners]_vars

-----------------------------------------------------------------------------

(* The heartbeat against every configuration pomodoro_configure accepts.    *)

\* Configurations with the count of sessions until the long break at 0 and 1.
LoopConfigs == {<<0, 0, 0, 0>>, <<1, 1, 1, 1>>}

NextLoop ==
    \/ ClockAdvance
    \/ pomodoro_start
    \/ pomodoro_pause
    \/ pomodoro_reset
    \/ \E c \in LoopConfigs : pomodoro_configure(c[1], c[2], c[3], c[4])
    \/ HbTick \/ HbCheckActive \/ HbSchedule \/ HbEnforce

SpecLoop == Init /\ [][NextLoop]_vars

-----------------------------------------------------------------------------
(* The end of an expired session: the heartbeat, taken as often as it can    *)
(* run, beside the clock, a session started by the user and the Pomodoro     *)
(* timer configured and started.                                             *)

HeartbeatExpiry ==
    \/ HbTick \/ HbCheckActive \/ HbSchedule \/ HbCheckExpired \/ HbEndCheck
    \/ HbEndClear \/ HbEnforce

NextExpiry ==
    \/ ClockAdvance
    \/ \E d \in {0, 1}, h \in BOOLEAN : start_focus_session("focus", d, h)
    \/ pomodoro_start
    \/ \E c \in LoopConfigs : pomodoro_configure(c[1], c[2], c[3], c[4])
    \/ HeartbeatExpiry

\* The loop of lib.rs 400-477 wakes every second for as long as its task lives.
SpecExpiry == Init /\ [][NextExpiry]_vars /\ WF_vars(HeartbeatExpiry)

-----------------------------------------------------------------------------
(* The mutexes of AppState: active_session, pomodoro_state, the database    *)
(* connection (conn) and app_handle.  Each task runs the lock and unlock     *)
(* operations of its code in order; a lock waits while the mutex is held.    *)

\* One guard taken and dropped with no other lock call inside its scope.
Locked(m) == <<<<"lock", m>>, <<"unlock", m>>>>

\* The heartbeat's read of active_session with the guard kept to the end of
\* the enforcement block.
HbCheckActiveOpsKept(rest) ==
    <<<<"lock", "active_session">>>> \o rest \o <<<<"unlock", "active_session">>>>

\* lib.rs 433-435: active_session locked, read and dropped, then the rest of
\* the enforcement block.
HbCheckActiveOps(rest) == Locked("active_session") \o rest

\* session.rs end_session: refused under the first guard (103-110), or the
\* guard dropped and the mutex taken again for the clear (114-118).
end_session_ops(refused) ==
    IF refused THEN Locked("active_session")
    ELSE Locked("active_session") \o Locked("active_session")

\* lib.rs 400-476, one round of the loop: pomodoro_tick, the notification
\* under the app_handle guard (408-421), and on a 3rd tick the enforcement
\* block: get_sessions and start_session (438-446) or is_session_expired and
\* end_session (450-451), then get_blocked_apps, log_block_event and the
\* emit under the app_handle guard (456-474).
HeartbeatOps ==
    LET notify == {<< >>, Locked("app_handle")}
        branch == {Locked("conn"),
                   Locked("conn") \o Locked("active_session"),
                   Locked("active_session"),
                   Locked("active_session") \o end_session_ops(TRUE),
                   Locked("active_session") \o end_session_ops(FALSE)}
        enforce == {Locked("conn"),
                    Locked("conn") \o Locked("conn") \o Locked("app_handle")}
    IN  {Locked("pomodoro_state") \o n : n \in notify}
        \cup {Locked("pomodoro_state") \o n \o HbCheckActiveOps(b \o e) :
                 n \in notify, b \in branch, e \in enforce}

\* lib.rs 32-310, the commands: one store call, or two in a row (a site
\* command and its sync, the enforcer and its log), start_session,
\* end_session, get_time_remaining, a Pomodoro call, and emergency_unlock
\* (get_setting, then the session cleared).
UiOps ==
    {Locked("conn"), Locked("conn") \o Locked("conn"),
     Locked("active_session"), end_session_ops(TRUE), end_session_ops(FALSE),
     Locked("pomodoro_state"),
     Locked("conn") \o Locked("active_session")}

\* server.rs: log_block_event in listen_on_udp (71), log_block_event and
\* get_setting in handle_connection (112, 117).
ListenerOps == {Locked("conn"), Locked("conn") \o Locked("conn")}

OpsOf(t) ==
    CASE t = "heartbeat" -> HeartbeatOps
      [] t = "ui" -> UiOps
      [] OTHER -> ListenerOps

\* A task starts a round, a command or a connection.
TaskBegin(t) ==
    /\ lock_tasks[t].ops = << >>
    /\ \E ops \in OpsOf(t) : lock_tasks' = [lock_tasks EXCEPT ![t].ops = ops]
    /\ UNCHANGED <<now, sessionVars, pomodoro_state, dbVars, hosts, hbVars, procs, result,
                   hs_initial, hs_log, pomodoro_log, data, parsed, conn, udp,
                   custom_warning_text, listeners>>

\* Mutex::lock, which waits while any task holds the mutex, and the drop of
\* a guard.
TaskStep(t) ==
    /\ lock_tasks[t].ops # << >>
    /\ LET op == Head(lock_tasks[t].ops)
       IN  IF op[1] = "lock"
           THEN /\ \A u \in Tasks : op[2] \notin lock_tasks[u].held
                /\ lock_tasks' = [lock_tasks EXCEPT ![t].ops = Tail(@),
                                                    ![t].held = @ \cup {op[2]}]
           ELSE lock_tasks' = [lock_tasks EXCEPT ![t].ops = Tail(@),
                                                 ![t].held = @ \ {op[2]}]
    /\ UNCHANGED <<now, sessionVars, pomodoro_state, dbVars, hosts, hbVars, procs, result,
                   hs_initial, hs_log, pomodoro_log, data, parsed, conn, udp,
                   custom_warning_text, listeners>>

NextLocks == \E t \in Tasks : TaskBegin(t) \/ TaskStep(t)

SpecLocks == Init /\ [][NextLocks]_vars

-----------------------------------------------------------------------------

(* The hosts-file synchronizer with a write that can stop part-way.         *)

\* write_hosts: the file is opened with truncate(true), which empties it, and
\* write_all then fails or is interrupted after the first k tokens.
write_hosts_interrupted(contents, k) == SubSeq(contents, 1, k)

HostsSyncInterrupted(domains) ==
    /\ Len(hs_log) < MaxSyncs
    /\ \A i \in 1..Len(hs_log) : hs_log[i].status # "write_failed"
    /\ ~get_bastion_section_panics(hosts)
    /\ \E k \in 0..(Len(NewHostsContent(hosts, domains)) - 1) :
        /\ hosts' = write_hosts_interrupted(NewHostsContent(hosts, domains), k)
        /\ hs_log' = Append(hs_log,
               [domains |-> domains, status |-> "write_failed", before |-> hosts,
                after |-> write_hosts_interrupted(NewHostsContent(hosts, domains), k)])
    /\ UNCHANGED <<now, sessionVars, pomodoro_state, dbVars, hbVars, procs, result,
                   hs_initial, pomodoro_log, netVars>>

NextHostsWrite ==
    \/ \E domains \in DomainLists : HostsSync(domains)
    \/ \E domains \in DomainLists : HostsSyncInterrupted(domains)

SpecHostsWrite == InitHosts /\ [][NextHostsWrite]_vars

-----------------------------------------------------------------------------

(* Properties of the session core (Spec) *)

HardcoreActive == IsSome(active_session) /\ active_session[1].hardcore
BeforeEnd == HardcoreActive /\ now < active_session[1].end_time

\* C1: end_session on an active hardcore session is refused with an error,
\* the session and the lock left as they were, while now < end_time; from
\* end_time on the same call returns Ok and clears the session.  The
\* heartbeat's own call obeys the same check.
C1_EndSessionHardcoreGate ==
    [][/\ (end_focus_session /\ HardcoreActive) =>
             IF now < active_session[1].end_time
             THEN result' = Err("end_focus_session") /\ UNCHANGED sessionVars
             ELSE /\ result' = OkEnded("end_focus_session", active_session)
                  /\ active_session' = None
       /\ (HbEndCheck /\ BeforeEnd) => (hb_pc' = "enforce" /\ UNCHANGED sessionVars)
      ]_vars

\* C1 witness: the UI's end_focus_session was just refused on a hardcore
\* session that has time left.
C1_Witness ==
    /\ result = Err("end_focus_session")
    /\ BeforeEnd
    /\ is_hardcore_locked

ValidUnlockStep ==
    \E p \in Passwords, db_ok \in BOOLEAN :
        /\ EmergencyUnlockValid(master_password_hash, p, db_ok)
        /\ emergency_unlock(p, db_ok)

\* C2: whatever the commands and the heartbeat do (a forced unlock with the
\* right password aside), a hardcore session with time left stays the active
\* session: it is neither cleared nor replaced.
C2_HardcoreSessionStays ==
    [][(BeforeEnd /\ ~ValidUnlockStep) => active_session' = active_session]_vars

\* C37: the session end_session clears is the one it checked: the clear never
\* removes a hardcore session that still has time left, such as one another
\* task started between the check and the clear.
C37_EndSessionAtomic ==
    [][HbEndClear => ~BeforeEnd]_vars

StartSessionStep ==
    \/ \E d \in {0, 1}, h \in BOOLEAN : start_focus_session("focus", d, h)
    \/ HbStartStore
    \/ HbStartAssign

\* C3: start_session, from the UI or from the heartbeat, leaves an already
\* active session as it is.
C3_StartOnlyFromNoSession ==
    [][(IsSome(active_session) /\ StartSessionStep) =>
           active_session' = active_session]_vars

\* C4: the hardcore flag is set exactly when the active session is a hardcore
\* one.
C4_LockIffHardcoreSession == is_hardcore_locked <=> HardcoreActive

RuleListStep ==
    \/ \E r \in RuleInputs : add_session(r)
    \/ \E id \in Ids : delete_session(id)

\* C6: while the hardcore flag is set, add_session and delete_session return
\* an error and leave the table of scheduled rules as it was.
C6_RuleListLocked ==
    [][(is_hardcore_locked /\ RuleListStep) =>
           (~result'.ok /\ sessions' = sessions)]_vars

\* C8: emergency_unlock clears the session and the flag, with Ok, exactly when
\* the master password verifies; otherwise it returns an error and leaves both
\* as they were.
C8_EmergencyUnlockIffVerified ==
    [][\A p \in Passwords, db_ok \in BOOLEAN :
           emergency_unlock(p, db_ok) =>
               IF verify_master_password(master_password_hash, p, db_ok) = "true"
               THEN /\ active_session' = None
                    /\ ~is_hardcore_locked'
                    /\ result'.ok
               ELSE /\ ~result'.ok
                    /\ UNCHANGED sessionVars
      ]_vars

\* C8 witness: a forced unlock just took out a hardcore session that still had
\* time left.
C8_Witness ==
    /\ result.cmd = "emergency_unlock"
    /\ result.ok
    /\ IsSome(result.ended)
    /\ result.ended[1].hardcore
    /\ now < result.ended[1].end_time
    /\ active_session = None
    /\ ~is_hardcore_locked

-----------------------------------------------------------------------------
(* Properties of the guarded block lists (SpecBlocklist) *)

\* C5: while the hardcore flag is set, each of the six block-list commands
\* returns an error and leaves both tables and the hosts file as they were.
C5_BlocklistLocked ==
    [][(is_hardcore_locked /\ BlocklistCommands) =>
           /\ ~result'.ok
           /\ result'.cmd \in {"add_blocked_site", "toggle_blocked_site",
                               "delete_blocked_site", "add_blocked_app",
                               "toggle_blocked_app", "delete_blocked_app"}
           /\ UNCHANGED <<blocked_sites, blocked_apps, hosts>>
      ]_vars

\* C5 witness: with the flag set and a site in the table, a delete was just
\* refused.
C5_Witness ==
    /\ is_hardcore_locked
    /\ result = Err("delete_blocked_site")
    /\ blocked_sites # << >>
    /\ HasSection(hosts)

\* The step left the hosts file out of step with the enabled rows of the table.
SyncFailed == hosts' # NewHostsContent(hosts, EnabledDomains(blocked_sites'))

\* C35: a site command that passed its guard and whose hosts-file sync failed
\* still returns success, and the table holds the row added, toggled or deleted.
C35_SyncFailureNotReturned ==
    [][(~is_hardcore_locked /\ SyncFailed) =>
           /\ \A d \in Domains :
                  (/\ add_blocked_site(d)
                   /\ \A i \in 1..Len(blocked_sites) : blocked_sites[i].domain # d) =>
                      /\ result' = Ok("add_blocked_site")
                      /\ blocked_sites' =
                             Append(blocked_sites,
                                    [id |-> next_id.sites, domain |-> d, enabled |-> TRUE])
           /\ \A id \in Ids, e \in BOOLEAN :
                  toggle_blocked_site(id, e) =>
                      /\ result' = Ok("toggle_blocked_site")
                      /\ blocked_sites' = ToggleRow(blocked_sites, id, e)
           /\ \A id \in Ids :
                  delete_blocked_site(id) =>
                      /\ result' = Ok("delete_blocked_site")
                      /\ blocked_sites' = DeleteRow(blocked_sites, id)
      ]_vars

\* add_blocked_site returned success with the row stored and enabled while the
\* hosts file, which could not be written, has no Bastion block.
C35_Witness ==
    /\ result = Ok("add_blocked_site")
    /\ Len(blocked_sites) = 1
    /\ blocked_sites[1].enabled
    /\ ~HasSection(hosts)

\* C25: while the hardcore flag is set, reset_all_blocks returns an error,
\* deletes no blocked app or site and leaves the hosts file as it was.
C25_ResetLocked ==
    [][(is_hardcore_locked /\ reset_all_blocks) =>
           /\ ~result'.ok
           /\ UNCHANGED <<blocked_sites, blocked_apps, hosts>>]_vars

-----------------------------------------------------------------------------
(* Properties of the Pomodoro commands (SpecPomodoro) *)

\* C7: while the hardcore flag is set, pomodoro_start, pomodoro_pause,
\* pomodoro_reset and pomodoro_configure are refused and leave the Pomodoro
\* state as it was; only the heartbeat's tick changes it.
C7_PomodoroLocked ==
    [][is_hardcore_locked =>
           /\ PomodoroCommands => (~result'.ok /\ pomodoro_state' = pomodoro_state)
           /\ (pomodoro_state' # pomodoro_state) => HbTick
      ]_vars

-----------------------------------------------------------------------------
(* Properties of the hosts-file synchronizer (SpecHosts) *)

\* C9: running update_blocked_websites a second time with the same domain
\* list leaves the file byte for byte as the first run left it.
C9_SyncIdempotent ==
    \A i \in 1..(Len(hs_log) - 1) :
        (/\ hs_log[i].status = "ok"
         /\ hs_log[i + 1].status = "ok"
         /\ hs_log[i + 1].domains = hs_log[i].domains)
        => hs_log[i + 1].after = hs_log[i].after

NoMarker(contents) ==
    /\ ~IsSome(Find(contents, BASTION_MARKER_START))
    /\ ~IsSome(Find(contents, BASTION_MARKER_END))

\* C10: from a file without a fence, a sync with a non-empty domain list
\* followed by a sync with the empty list gives back the file as it was.
C10_SyncRoundTrip ==
    (/\ Len(hs_log) >= 2
     /\ NoMarker(hs_initial)
     /\ hs_log[1].domains # << >>
     /\ hs_log[2].domains = << >>)
    => hs_log[2].after = hs_initial

-----------------------------------------------------------------------------
(* Properties of the hosts file: the fence and the block format *)

Count(contents, tok) == Cardinality({i \in 1..Len(contents) : contents[i] = tok})

\* A file with no marker, or with one start marker followed by one end marker.
WellFenced(contents) ==
    \/ NoMarker(contents)
    \/ /\ Count(contents, BASTION_MARKER_START) = 1
       /\ Count(contents, BASTION_MARKER_END) = 1
       /\ Find(contents, BASTION_MARKER_START)[1] < Find(contents, BASTION_MARKER_END)[1]

AllSyncsOk == \A i \in 1..Len(hs_log) : hs_log[i].status = "ok"

WrittenBlock(entry) ==
    SubSeq(entry.after, Len(entry.after) - (8 * Len(entry.domains) + 3),
           Len(entry.after) - 1)

LinePrefix(j) ==
    CASE j = 0 -> "127.0.0.1 "
      [] j = 1 -> "127.0.0.1 www."
      [] j = 2 -> "::1 "
      [] j = 3 -> "::1 www."

\* The format of a block for a domain list, line by line.
IsFencedBlock(block, domains) ==
    /\ Len(block) = 8 * Len(domains) + 3
    /\ block[1] = BASTION_MARKER_START
    /\ block[2] = NL
    /\ \A k \in 1..Len(domains) : \A j \in 0..3 :
           /\ block[2 + 8 * (k - 1) + 2 * j + 1] = LinePrefix(j) \o domains[k]
           /\ block[2 + 8 * (k - 1) + 2 * j + 2] = NL
    /\ block[Len(block)] = BASTION_MARKER_END

\* C12: the block generated for a domain list is the start marker line, then
\* for each domain in input order the four lines 127.0.0.1 d, 127.0.0.1 www.d,
\* ::1 d, ::1 www.d, then the end marker, and nothing else.
C12_BlockFormat ==
    \A i \in 1..Len(hs_log) :
        (hs_log[i].status = "ok" /\ hs_log[i].domains # << >>) =>
            IsFencedBlock(WrittenBlock(hs_log[i]), hs_log[i].domains)

C12_Witness ==
    /\ hs_log # << >>
    /\ hs_log[1].status = "ok"
    /\ hs_log[1].domains = <<"a.com", "b.com">>
    /\ WrittenBlock(hs_log[1])[11] = "127.0.0.1 b.com"

-----------------------------------------------------------------------------
(* Properties of the process enforcer (SpecEnforce) *)

\* A name that equals a SYSTEM_WHITELIST entry when case is ignored.
IsWhitelistedName(n) == \E w \in SYSTEM_WHITELIST : to_lowercase(w) = to_lowercase(n)

EnforceReturned == result.cmd = "enforce_app_blocks" /\ result.ok

\* C13: enforce_app_blocks signals no process whose name equals a whitelist
\* entry when case is ignored, and returns no such name, whatever the blocked
\* list holds.
C13_WhitelistNeverTerminated ==
    EnforceReturned =>
        /\ \A p \in result.signalled : ~IsWhitelistedName(p)
        /\ \A n \in result.killed : ~IsWhitelistedName(n)

C13_Witness ==
    /\ EnforceReturned
    /\ \E i \in 1..Len(blocked_apps) :
           /\ blocked_apps[i].enabled
           /\ blocked_apps[i].process_name = "System"
    /\ "System" \in procs
    /\ result.killed = {"Game.exe"}
    /\ "game.exe" \in result.signalled

\* C24: enforce_app_blocks returns the blocked names, in the spelling of the
\* blocked list, for which a matching live process was terminated, and no
\* name whose process survived the attempt.
C24_OnlyTerminatedReported ==
    EnforceReturned =>
        /\ \A n \in result.killed :
               /\ \E i \in 1..Len(blocked_apps) :
                      blocked_apps[i].enabled /\ blocked_apps[i].process_name = n
               /\ \E p \in result.died : to_lowercase(p) = to_lowercase(n)
        /\ \A p \in result.died :
               \E n \in result.killed : to_lowercase(p) = to_lowercase(n)

\* C32: when every enabled blocked name is on the whitelist (case ignored), or
\* none is enabled, enforce_app_blocks returns nothing and has not enumerated
\* the process table.
C32_EmptyKillSetSkipsScan ==
    (/\ EnforceReturned
     /\ \A i \in 1..Len(blocked_apps) :
            blocked_apps[i].enabled => IsWhitelistedName(blocked_apps[i].process_name))
        => /\ result.killed = {}
           /\ ~result.refreshed

-----------------------------------------------------------------------------
(* Properties of the Pomodoro timer (SpecTimer) *)

\* C14: from a freshly configured Work phase of W >= 1 seconds with the timer
\* running, the first W-1 ticks return nothing, the W-th returns the completed
\* phase Work and leaves the phase at Break.
C14_WorkPhaseTakesWTicks ==
    (pomodoro_log.fresh /\ pomodoro_log.work >= 1) =>
        /\ \A i \in 1..Len(pomodoro_log.returned) :
               /\ i < pomodoro_log.work => pomodoro_log.returned[i] = None
               /\ i = pomodoro_log.work => pomodoro_log.returned[i] = Some("Work")
        /\ Len(pomodoro_log.returned) = pomodoro_log.work =>
               pomodoro_state.phase = "Break"

\* C15: whatever pomodoro_configure, pomodoro_start, pomodoro_pause,
\* pomodoro_reset and pomodoro_tick are run, time_remaining is never negative.
C15_TimeRemainingNonNegative == pomodoro_state.time_remaining >= 0

TickStep == tick_no' = tick_no + 1

\* C16: a tick that completes a Work phase goes to LongBreak when the number
\* of Work phases completed so far, this one included, is a multiple of
\* sessions_until_long_break, and to Break otherwise; a tick that completes a
\* Break or a LongBreak goes to Work.
C16_LongBreakEveryNth ==
    [][TickStep =>
        /\ pomodoro_log'.last = Some("Work") =>
               /\ pomodoro_state'.completed_sessions = pomodoro_log'.works
               /\ pomodoro_state'.phase =
                      IF pomodoro_log'.works % pomodoro_state.sessions_until_long_break = 0
                      THEN "LongBreak" ELSE "Break"
        /\ pomodoro_log'.last \in {Some("Break"), Some("LongBreak")} =>
               pomodoro_state'.phase = "Work"]_vars

C16_Witness ==
    /\ pomodoro_log.last = Some("Work")
    /\ pomodoro_log.works = 2
    /\ pomodoro_state.sessions_until_long_break = 2
    /\ pomodoro_state.phase = "LongBreak"

\* C26: the phase changes only in a tick taken with the timer running and
\* time_remaining at 0; the four commands and a tick of a stopped timer leave
\* the phase and completed_sessions as they were.
C26_PhaseChangesOnlyAtZero ==
    [][/\ pomodoro_state'.phase # pomodoro_state.phase =>
              /\ TickStep
              /\ pomodoro_state.is_running
              /\ pomodoro_state.time_remaining = 0
       /\ ~(TickStep /\ pomodoro_state.is_running) =>
              /\ pomodoro_state'.phase = pomodoro_state.phase
              /\ pomodoro_state'.completed_sessions = pomodoro_state.completed_sessions
      ]_vars

\* C27: pomodoro_configure puts the new work duration in time_remaining when
\* the phase is Work and leaves time_remaining alone in Break and LongBreak;
\* it never changes phase, completed_sessions or is_running.
C27_ConfigureResetsOnlyInWork ==
    [][\A c \in TimerConfigs :
           pomodoro_configure(c[1], c[2], c[3], c[4]) =>
               /\ pomodoro_state'.time_remaining =
                      IF pomodoro_state.phase = "Work" THEN c[1]
                      ELSE pomodoro_state.time_remaining
               /\ pomodoro_state'.phase = pomodoro_state.phase
               /\ pomodoro_state'.completed_sessions = pomodoro_state.completed_sessions
               /\ pomodoro_state'.is_running = pomodoro_state.is_running
      ]_vars

\* pomodoro_configure(2, 1, 2, 4) was run in a Break and left its 0 seconds.
C27_Witness ==
    /\ result = Ok("pomodoro_configure")
    /\ ~pomodoro_log.fresh
    /\ pomodoro_log.work = 2
    /\ pomodoro_log.last = None
    /\ pomodoro_state.phase = "Break"
    /\ pomodoro_state.work_duration = 2
    /\ pomodoro_state.time_remaining = 0

\* The heartbeat is inside the block of lines 429-475.
InEnforcementBlock == hb_pc \notin {"sleep", "dead"}

EnforceStep == hb_pc = "enforce" /\ hb_pc' = "sleep"

\* C34: the enforcement of a tick taken with no active session terminates no
\* process and logs no block event: the enforcer runs only during a session.
C34_EnforcerOnlyInSession ==
    [][(EnforceStep /\ active_session = None) =>
           /\ procs' = procs
           /\ block_events' = block_events]_vars

\* The active session's end_time has been reached.
Expired == IsSome(active_session) /\ now >= active_session[1].end_time

\* C36: an active session whose end_time has passed does not stay: the
\* heartbeat clears it and the lock (or the user starts another session)
\* before the ticks of the model run out.
C36_ExpiredSessionEnded == Expired ~> (~Expired \/ tick_no = MaxTicks)

-----------------------------------------------------------------------------
(* Properties of the schedule check *)

ManualSession(s) == IsSome(s) /\ s[1].name = "focus"

\* C18: while a manually started session is active, no step puts a scheduled
\* session in its place, however the heartbeat's schedule check and
\* start_focus_session interleave.
C18_ManualNeverPreempted ==
    [][ManualSession(active_session) =>
           ~(IsSome(active_session') /\ ~ManualSession(active_session'))]_vars

\* A rule that is enabled, lists the weekday of n and whose window, both ends
\* included, holds the time of day of n.
Qualifies(r, n) ==
    /\ r.enabled
    /\ current_day(n) \in ParseDays(r.days)
    /\ IsSome(ParseTime(r.start_time)) /\ IsSome(ParseTime(r.end_time))
    /\ ParseTime(r.start_time)[1] <= current_time(n)
    /\ current_time(n) <= ParseTime(r.end_time)[1]

\* C17: check_scheduled_sessions returns the first rule in list order that
\* qualifies, and nothing when no rule qualifies.
C17_FirstQualifyingRule ==
    LET found == check_scheduled_sessions(sessions, now)
        hits == {i \in 1..Len(sessions) : Qualifies(sessions[i], now)}
    IN  /\ hits = {} <=> found = None
        /\ \A i \in hits :
               (\A j \in hits : i <= j) => found = Some(sessions[i])

\* The heartbeat took the second rule at the last second of its window, the
\* first rule being out of its own.
C17_Witness ==
    /\ hb_pc = "start_store"
    /\ hb_local.name = "r2"
    /\ Len(sessions) = 2
    /\ sessions[1].enabled
    /\ ~Qualifies(sessions[1], now)
    /\ current_time(now) = ParseTime(sessions[2].end_time)[1]

\* The session the heartbeat's start_session call leaves is the rule's.
ScheduledStart == HbStartAssign /\ \E i \in 1..Len(sessions) : sessions[i].name = hb_local.name

-----------------------------------------------------------------------------
(* Properties of the block server's parser (SpecSni) *)

\* C19: on a minimal valid ClientHello whose server_name extension carries the
\* host name h the parser returns h, and on a buffer shorter than 43 bytes it
\* returns no host name.
C19_SniExtracted ==
    parsed.done =>
        /\ \A h \in HostNames, b \in {0, 7} :
               data = ClientHello(h, b) => parsed.value = Some(h)
        /\ Len(data) < MinClientHelloLen => parsed.value = None

\* C20: whatever the buffer, every index parse_sni reads is inside it: the
\* parser returns a host name or none and never fails on an out-of-bounds read.
C20_ParseSniTotal == parsed.done => ~parsed.panicked

\* A hello cut inside the host name: the name length runs past the buffer.
C20_Witness ==
    /\ parsed.done
    /\ ~parsed.panicked
    /\ data = SniHeader(0) \o Fill(13, 0) \o <<1>>
    /\ parsed.value = None

-----------------------------------------------------------------------------
(* Properties of the block server (SpecServer) *)

\* The value of the first Host header of a list of request lines.
ExpectedHost(ls) ==
    LET hits == {i \in 1..Len(ls) : ls[i].host}
    IN  IF hits = {} THEN None
        ELSE Some(ls[CHOOSE i \in hits : \A j \in hits : i <= j].value)

HttpHandled == conn.closed /\ conn.port = 80 /\ conn.read = "ok" /\ data # << >>

\* C21: parse_host_header returns the trimmed value after the colon of the
\* first line that starts with Host: in any case, and nothing when the buffer
\* holds no such line.
C21_HostHeaderParsed ==
    HttpHandled =>
        \A ls \in RequestLists, end \in LineEnds :
            data = Request(ls, end) => parsed.value = ExpectedHost(ls)

\* A request whose second line is the mixed-case header hOsT:c followed by
\* spaces, after a line that only looks like a header.
C21_Witness ==
    /\ HttpHandled
    /\ data = <<88, 45, 72, 111, 115, 116, 58, 32, 100, 13, 10,
                104, 79, 115, 84, 58, 99, 32, 32, 13, 10>>
    /\ parsed.value = Some(<<99>>)

-----------------------------------------------------------------------------
(* Properties of the heartbeat loop (SpecLoop) *)

\* C22: the heartbeat loop never ends: whatever fails inside a round,
\* a Pomodoro tick on any accepted configuration included, the loop goes on
\* to its next tick.
C22_HeartbeatNeverStops == hb_pc # "dead"

-----------------------------------------------------------------------------
(* Properties of a failing hosts-file write (SpecHostsWrite) *)

\* C23: after a sync that failed, the hosts file holds its complete previous
\* content or the complete new content, never a part of either.
C23_FailedSyncKeepsFileWhole ==
    \A i \in 1..Len(hs_log) :
        hs_log[i].status = "write_failed" =>
            \/ hs_log[i].after = hs_log[i].before
            \/ hs_log[i].after = NewHostsContent(hs_log[i].before, hs_log[i].domains)

-----------------------------------------------------------------------------
(* Properties of the block server's listeners (SpecServer, SpecUdp) *)

\* The website event of the connection for the host name h.
WebsiteEvent(h) == [target |-> h, target_type |-> "website"]

\* C28: handling an accepted connection stores a website event for the
\* extracted host name exactly when the first read returned at least one byte
\* in time and a host name was extracted (and the store took the row); a
\* timeout, a read error or a zero-byte read stores nothing and writes nothing.
C28_EventIffHostExtracted ==
    [][\A port \in {80, 443}, read \in ReadOutcomes :
           handle_connection(port, read) =>
               LET got == read = "ok" /\ data # << >>
                   name == IF port = 443 THEN parse_sni(data).value
                           ELSE parse_host_header(data)
                   extracted == got /\ ~parsed'.panicked /\ IsSome(name)
               IN  /\ (extracted /\ conn'.db_ok) =>
                          block_events' = Append(block_events, WebsiteEvent(name[1]))
                   /\ ~(extracted /\ conn'.db_ok) => block_events' = block_events
                   /\ ~got => conn'.response = None
      ]_vars

\* A request on port 80 whose Host header was extracted has been stored as
\* the one website event, and the 403 page was written.
C28_Witness ==
    /\ conn.closed
    /\ conn.port = 80
    /\ conn.read = "ok"
    /\ conn.db_ok
    /\ IsSome(parsed.value)
    /\ block_events = <<WebsiteEvent(parsed.value[1])>>
    /\ IsSome(conn.response)

\* C29: a response is written only on port 80, and it is the 403 Forbidden
\* page with the configured warning text (the built-in text when none is
\* stored or the setting cannot be read); nothing is written on port 443.
C29_ResponseOnlyOnPort80 ==
    conn.closed =>
        /\ conn.port = 443 => conn.response = None
        /\ IsSome(conn.response) =>
               /\ conn.port = 80
               /\ conn.response[1].status = "403 Forbidden"
               /\ conn.response[1].body \in
                      {DefaultWarningText} \cup
                      {custom_warning_text[i] : i \in 1..Len(custom_warning_text)}

\* A record naming example.com was logged on port 443 with nothing written.
C29_Witness ==
    /\ conn.closed
    /\ conn.port = 443
    /\ conn.read = "ok"
    /\ data = WalkedHello(ExampleCom)
    /\ block_events = <<WebsiteEvent(ExampleCom)>>
    /\ conn.response = None

\* C30: every datagram received on UDP/443, an empty one included, stores
\* exactly one event with target QUIC/UDP Protocol and type website (when the
\* store takes the row), and the socket keeps receiving.
C30_EveryDatagramLogged ==
    [][\A n \in {0, 1} :
           (/\ listen_on_udp(n)
            /\ Len(udp'.datagrams) = Len(udp.datagrams) + 1
            /\ udp'.datagrams[Len(udp'.datagrams)].db_ok) =>
               /\ block_events' = Append(block_events, WebsiteEvent(QuicTarget))
               /\ udp'.receiving
      ]_vars

-----------------------------------------------------------------------------
(* Properties of the listener tasks (SpecListeners) *)

\* C31: every endpoint whose bind failed has its failure logged, and whatever
\* the other endpoints did, an endpoint still at its bind can bind and listen.
C31_BindsFailIndependent ==
    \A e \in Endpoints :
        /\ listeners[e].state = "failed" => listeners[e].logged
        /\ listeners[e].state = "spawned" => ENABLED Bind(e, TRUE)

-----------------------------------------------------------------------------
(* Properties of the mutexes (SpecLocks) *)

\* The task has operations left and its next one is a lock on a held mutex.
Waiting(t) ==
    /\ lock_tasks[t].ops # << >>
    /\ Head(lock_tasks[t].ops)[1] = "lock"
    /\ \E u \in Tasks : Head(lock_tasks[t].ops)[2] \in lock_tasks[u].held

\* C38: no task holds two of the mutexes at once, and whenever some task is
\* inside its code some task can take its next step: there is no deadlock.
C38_OneLockAtATime ==
    /\ \A t \in Tasks : Cardinality(lock_tasks[t].held) <= 1
    /\ (\E t \in Tasks : lock_tasks[t].ops # << >>) =>
           \E t \in Tasks : lock_tasks[t].ops # << >> /\ ~Waiting(t)

\* The heartbeat holds the connection inside get_blocked_apps, the listener
\* waits for it in log_block_event, and the UI holds active_session.
C38_Witness ==
    /\ lock_tasks["heartbeat"].held = {"conn"}
    /\ Waiting("listener")
    /\ lock_tasks["ui"].held = {"active_session"}

=============================================================================
